---- MODULE Spec2Model ----
(***************************************************************************)
(* A model of the storefront theme's client-side scripts:                  *)
(*   - CartDrawer   (assets/cart-drawer.js): the drawer, the cart          *)
(*     mutations and the refresh of the rendered cart;                     *)
(*   - ProductForm  (docs/METAFIELDS.md, lines 106-400): variant           *)
(*     resolution, the derived display state and the AJAX submit.          *)
(* JavaScript is single-threaded: a handler runs to its first await, and   *)
(* each continuation runs when the awaited response is delivered.  Every   *)
(* fetch is modelled in three steps: the request is sent (by the handler), *)
(* the remote cart serves it (Serve), and the response is delivered to the *)
(* waiting continuation (Deliver).  Requests are served, and responses     *)
(* delivered, in any order.                                                *)
(***************************************************************************)
EXTENDS Integers, Sequences, FiniteSets, Bags, TLC

\* ------------------------------------------------------------- bounds
\* the largest quantity the remote cart accepts for one line (stock limit)
MaxQty == 3
\* the number of user events (clicks, key presses, submissions) in a run
MaxOps == 3
\* the number of add-to-cart submissions in a run
MaxSubmits == 1
\* the number of requests that fail in a run
MaxFailures == 1

\* the line keys of the remote cart
Keys == {"a", "b"}

VARIABLES
    \* ---- the remote cart (the source of truth)
    cart,           \* [Keys -> 0..MaxQty]: quantity per line key, 0 = no line
    \* ---- CartDrawer and the page's cart view
    isOpen,         \* CartDrawer.isOpen
    drawerVisible,  \* the drawer carries class is-open (overlay is-visible)
    isLoading,      \* the drawer carries class is-loading
    shown,          \* the rendered cart fragment: displayed quantity per key
    shownCount,     \* the text of every [data-cart-count] indicator
    tasks,          \* bag of suspended async calls, each awaiting a fetch
    alertMsg,       \* the text of the last alert(), "" when none was shown
    lastLog,        \* the last console.error message, "" when none
    \* ---- ProductForm
    variants,       \* productJson.variants
    urlParam,       \* the variant parameter of window.location
    checked,        \* per option index, the value of its :checked input
    form,           \* currentVariant and the DOM elements the form writes
    timers,         \* pending setTimeout callbacks of onFormSubmit
    \* ---- the page
    ajaxCart,       \* window.theme.ajaxCart
    drawerPresent,  \* the page has a [data-cart-drawer] element
    navigated,      \* a native form submission has left the page
    historyLength,  \* window.history.length: entries of the session history
    \* ---- the DOMContentLoaded initializer of the product forms
    containers,     \* per [data-product-form] container, its ProductJson element
    booted,         \* the DOMContentLoaded listener has run
    productForms,   \* the containers whose ProductForm was constructed
    uncaught,       \* an exception left the DOMContentLoaded listener
    \* ---- Wishlist
    wishlist,       \* the handles stored under STORAGE_KEY, oldest first
    wishCount,      \* the text of every [data-wishlist-count] element
    wishResult,     \* what the last Wishlist call returned, as text
    wishOp,         \* the last Wishlist call: its name and its handle
    wishOpsLeft,    \* Wishlist calls left in this run
    wishSaveFailed, \* a localStorage.setItem of _save has thrown
    wishBefore,     \* observer: the stored list before the last Wishlist call
    \* ---- RecentlyViewed
    recent,         \* the handles stored under its STORAGE_KEY
    recentOp,       \* the last RecentlyViewed call: name, handle, stored
    recentOpsLeft,  \* RecentlyViewed calls left in this run
    recentAdds,     \* observer: the handles of the adds that were stored
                    \* since the list was last empty, in the order of the calls
    \* ---- PredictiveSearch
    searchValue,    \* searchInput.value, a sequence of characters
    searchTimers,   \* the pending setTimeout callbacks: id and time left
    debounceTimer,  \* PredictiveSearch.debounceTimer, 0 for null
    searchReqs,     \* the search() calls suspended at an await
    searchResults,  \* resultsContainer.innerHTML: kind and query
    searchShown,    \* resultsContainer is displayed
    searchLoading,  \* the loading indicator is displayed
    searchObs,      \* observer: events, calls and responses so far
    \* ---- CookieConsent
    consentStore,   \* localStorage: the item STORAGE_KEY and its _details
    consentScripts, \* per deferred script: dataset.activated, times run
    consentBanner,  \* the banner, its pending hide timers and the panel
    consentEnv,     \* Shopify's privacy API, calls left, the last call
    \* ---- the environment and the observers
    opsLeft,        \* user events left in this run
    formEvent,      \* the last ProductForm event: "load", "change", ...
    submits,        \* add-to-cart submissions so far
    addReqs,        \* add-line requests sent to the remote cart so far
    failures,       \* requests served with a failure so far
    dbl             \* observer of an overlapping pair of +1 clicks on one key

cartVars ==
    <<cart, isOpen, drawerVisible, isLoading, shown, shownCount, tasks, alertMsg, lastLog>>
formVars == <<variants, urlParam, checked, form, timers>>
bootVars == <<containers, booted, productForms, uncaught>>
wishVars ==
    <<wishlist, wishCount, wishResult, wishOp, wishOpsLeft, wishSaveFailed,
      wishBefore>>
recentVars == <<recent, recentOp, recentOpsLeft, recentAdds>>
searchVars ==
    <<searchValue, searchTimers, debounceTimer, searchReqs, searchResults,
      searchShown, searchLoading, searchObs>>
consentVars == <<consentStore, consentScripts, consentBanner, consentEnv>>
widgetVars == <<recentVars, searchVars, consentVars>>
moduleVars == <<bootVars, wishVars, widgetVars>>
pageVars == <<ajaxCart, drawerPresent, navigated, historyLength, moduleVars>>
envVars == <<opsLeft, formEvent, submits, addReqs, failures, dbl>>
vars == <<cartVars, formVars, pageVars, envVars>>

\* ------------------------------------------------------------ helpers
RECURSIVE SumOver(_, _)
SumOver(f, S) ==
    IF S = {} THEN 0
    ELSE LET k == CHOOSE x \in S : TRUE IN f[k] + SumOver(f, S \ {k})

\* cart.item_count of /cart.js: the total quantity of the cart
ItemCount(c) == SumOver(c, Keys)

Max(a, b) == IF a >= b THEN a ELSE b

NoSnap == [k \in Keys |-> 0]

\* A suspended async call.  kind: which function is waiting; pc: which fetch
\* it awaits ("req": its own request, "frag": refresh()'s fragment fetch);
\* net: "sent", or how the fetch was served ("ok", "fail", ...); snap: the
\* cart a fragment response carries (qty: the item_count of a summary); text: addItem's originalText; plus, base: for
\* the observer dbl only.
Task(kind, pc, key, qty) ==
    [kind |-> kind, pc |-> pc, net |-> "sent", key |-> key, qty |-> qty,
     snap |-> NoSnap, text |-> "", plus |-> FALSE, base |-> -1]

AnyKey == CHOOSE k \in Keys : TRUE

One(t) == SetToBag({t})

InFlight == BagToSet(tasks)

\* ------------------------------------------------ ProductForm: data
\* the number of options of the product (productJson.options.length)
NumOptions == 2
\* the most variants a product of the family has
MaxVariants == 2

OptionIdx == 1..NumOptions

\* the values that have a [data-option-input] for each option index
OptionValues == <<{"S", "M"}, {"S", "R"}>>

\* no input of this option index is :checked
NoValue == "-"

\* the variant's id in productJson (ids differ from list positions)
IdOf(i) == i + 1

\* the remaining fields of the i-th variant of productJson.variants
MakeVariant(i, opts, avail) ==
    [id |-> IdOf(i), options |-> opts, available |-> avail,
     price |-> 1000 + 50 * i,
     compare_at_price |-> IF i % 2 = 1 THEN 1500 ELSE 0,
     inventory_management |-> (i % 2 = 1),
     inventory_quantity |-> IF avail THEN 2 * i + 1 ELSE 0,
     featured_image |-> IF i % 2 = 1 THEN i ELSE 0]

OptionTuples == {<<a, b>> : a \in OptionValues[1], b \in OptionValues[2]}

\* the products of the family: every list of 1..MaxVariants variants, with
\* any option tuples (duplicates included) and any availability
Products ==
    UNION {
      { [i \in 1..n |-> MakeVariant(i, o[i], av[i])] :
            o \in [1..n -> OptionTuples], av \in [1..n -> BOOLEAN] }
      : n \in 1..MaxVariants }

\* ------------------------------------------- ProductForm: conversions
\* The strings the model reads are sequences of one-character strings.
DigitChars == <<"0", "1", "2", "3", "4", "5", "6", "7", "8", "9">>

IsDigit(c) == \E d \in 1..10 : DigitChars[d] = c

DigitVal(c) == (CHOOSE d \in 1..10 : DigitChars[d] = c) - 1

Drop(s, n) == SubSeq(s, n + 1, Len(s))

RECURSIVE StripSpaces(_)
StripSpaces(s) ==
    IF s # <<>> /\ s[1] = " " THEN StripSpaces(Tail(s)) ELSE s

\* the value of the longest prefix of digits of s read in base `radix`,
\* continuing from acc; n counts the digits read
RECURSIVE ReadDigits(_, _, _, _)
ReadDigits(s, radix, acc, n) ==
    IF s # <<>> /\ IsDigit(s[1])
    THEN ReadDigits(Tail(s), radix, acc * radix + DigitVal(s[1]), n + 1)
    ELSE [val |-> acc, n |-> n]

NaN == [nan |-> TRUE, val |-> 0]

\* JavaScript's parseInt(s) with no radix: leading white space skipped, an
\* optional sign, a 0x prefix for base 16, then the longest run of digits;
\* what follows is ignored; NaN when there is no digit.
ParseInt(s) ==
    LET t == StripSpaces(s)
        neg == t # <<>> /\ t[1] = "-"
        u == IF t # <<>> /\ t[1] \in {"-", "+"} THEN Tail(t) ELSE t
        hex == Len(u) >= 2 /\ u[1] = "0" /\ u[2] \in {"x", "X"}
        r == IF hex THEN ReadDigits(Drop(u, 2), 16, 0, 0)
             ELSE ReadDigits(u, 10, 0, 0)
    IN IF r.n = 0 THEN NaN
       ELSE [nan |-> FALSE, val |-> IF neg THEN 0 - r.val ELSE r.val]

\* String(n) for an integer n >= 0 (searchParams.set, toFixed)
RECURSIVE NumToString(_)
NumToString(n) ==
    IF n < 10 THEN <<DigitChars[n + 1]>>
    ELSE NumToString(n \div 10) \o <<DigitChars[(n % 10) + 1]>>

\* the values of the variant parameter of window.location.search the model
\* starts from; <<>> is an absent (or empty) parameter
UrlParams ==
    {<<>>, <<"2">>, <<"3">>, <<"4">>, <<"3", "x">>, <<" ", "3">>,
     <<"0", "2">>, <<"x">>, <<"2", "3">>, <<"0", "x", "2">>}

\* --------------------------------------- ProductForm: pure functions
\* variants.find(pred), given pred's value on each variant in list order:
\* the position of the first variant for which pred holds, 0 for undefined
FindFirst(hits) ==
    IF \E i \in 1..Len(hits) : hits[i]
    THEN CHOOSE i \in 1..Len(hits) :
            hits[i] /\ \A j \in 1..(i - 1) : ~hits[j]
    ELSE 0

\* UrlVariant that skips sold-out variants
UrlVariantAvailableOnly(vs, url) ==
    IF url = <<>> THEN 0
    ELSE LET p == ParseInt(url)
             IsIt(v) == ~p.nan /\ v.id = p.val /\ v.available
         IN FindFirst([n \in 1..Len(vs) |-> IsIt(vs[n])])

\* the variant the URL names: variants.find(v => v.id === parseInt(variantId))
\* behind `if (variantId)`
UrlVariant(vs, url) ==
    IF url = <<>> THEN 0
    ELSE LET p == ParseInt(url)
             IsIt(v) == ~p.nan /\ v.id = p.val
         IN FindFirst([n \in 1..Len(vs) |-> IsIt(vs[n])])

\* ProductForm.getInitialVariant
getInitialVariant(vs, url) ==
    LET IsAvail(v) == v.available
        fromUrl == UrlVariant(vs, url)
        firstAvail == FindFirst([n \in 1..Len(vs) |-> IsAvail(vs[n])])
    IN IF fromUrl # 0 THEN fromUrl
       ELSE IF firstAvail # 0 THEN firstAvail
       ELSE 1

\* ProductForm.getSelectedOptions: the :checked value of each option index
\* that has one, pushed in index order
RECURSIVE SelectedFrom(_, _)
SelectedFrom(chk, i) ==
    IF i > NumOptions THEN <<>>
    ELSE (IF chk[i] # NoValue THEN <<chk[i]>> ELSE <<>>)
         \o SelectedFrom(chk, i + 1)

getSelectedOptions(chk) == SelectedFrom(chk, 1)

\* getVariantFromOptions with some() for every(): a variant matches when
\* any one option value does
getVariantFromOptionsSome(vs, options) ==
    LET Matches(v) ==
            \E index \in 1..Len(options) :
                index <= Len(v.options) /\ v.options[index] = options[index]
    IN FindFirst([n \in 1..Len(vs) |-> Matches(vs[n])])

\* ProductForm.getVariantFromOptions
getVariantFromOptions(vs, options) ==
    LET Matches(v) ==
            \A index \in 1..Len(options) :
                index <= Len(v.options) /\ v.options[index] = options[index]
    IN FindFirst([n \in 1..Len(vs) |-> Matches(vs[n])])

\* ProductForm.formatMoney with the default format ${{amount}}:
\* (cents / 100).toFixed(2)
formatMoney(cents) ==
    <<"$">> \o NumToString(cents \div 100) \o <<".">>
        \o <<DigitChars[((cents % 100) \div 10) + 1]>>
        \o <<DigitChars[(cents % 10) + 1]>>

\* ------------------------------------------- ProductForm: the display
\* the DOM as the template renders it, before the constructor runs
TemplateForm ==
    [currentVariant |-> 0, variantIdInput |-> 0,
     priceText |-> <<>>, compareText |-> <<>>, compareHidden |-> TRUE,
     priceRed |-> FALSE, btnDisabled |-> FALSE, btnText |-> "Add to Cart",
     stockStatus |-> [tier |-> "", n |-> 0],
     mainImage |-> [img |-> 0, size |-> ""], quantityInput |-> 1]

\* ProductForm.updateAddToCartState
updateAddToCartState(f, enabled, text) ==
    [f EXCEPT !.btnDisabled = ~enabled, !.btnText = text]

\* ProductForm.updatePrice
updatePrice(f, v) ==
    LET sale == v.compare_at_price > v.price
    IN [f EXCEPT !.priceText = formatMoney(v.price),
                 !.compareText = IF sale THEN formatMoney(v.compare_at_price) ELSE @,
                 !.compareHidden = ~sale,
                 !.priceRed = sale]

\* ProductForm.updateAvailability
updateAvailability(f, v) ==
    IF v.available THEN updateAddToCartState(f, TRUE, "Add to Cart")
    ELSE updateAddToCartState(f, FALSE, "Sold Out")

\* ProductForm.updateImage: src.replace(/(\.[^.]*)$/, '_800x$1')
updateImage(f, v) ==
    IF v.featured_image = 0 THEN f
    ELSE [f EXCEPT !.mainImage = [img |-> v.featured_image, size |-> "_800x"]]

\* updateStockStatus with `< 5` for `<= 5`
updateStockStatusBelowFive(f, v) ==
    [f EXCEPT !.stockStatus =
        IF ~v.available THEN [tier |-> "Out of Stock", n |-> 0]
        ELSE IF v.inventory_management /\ v.inventory_quantity < 5
                /\ v.inventory_quantity > 0
             THEN [tier |-> "Only N left", n |-> v.inventory_quantity]
             ELSE [tier |-> "In Stock", n |-> 0]]

\* ProductForm.updateStockStatus
updateStockStatus(f, v) ==
    [f EXCEPT !.stockStatus =
        IF ~v.available THEN [tier |-> "Out of Stock", n |-> 0]
        ELSE IF v.inventory_management /\ v.inventory_quantity <= 5
                /\ v.inventory_quantity > 0
             THEN [tier |-> "Only N left", n |-> v.inventory_quantity]
             ELSE [tier |-> "In Stock", n |-> 0]]

\* updateUI that empties the hidden id field when there is no variant
updateUIClearsId(f, vs) ==
    IF f.currentVariant = 0
    THEN [updateAddToCartState(f, FALSE, "Unavailable") EXCEPT !.variantIdInput = 0]
    ELSE LET v == vs[f.currentVariant]
             f1 == [f EXCEPT !.variantIdInput = v.id]
         IN updateStockStatus(
                updateImage(updateAvailability(updatePrice(f1, v), v), v), v)

\* ProductForm.updateUI
updateUI(f, vs) ==
    IF f.currentVariant = 0 THEN updateAddToCartState(f, FALSE, "Unavailable")
    ELSE LET v == vs[f.currentVariant]
             f1 == [f EXCEPT !.variantIdInput = v.id]
         IN updateStockStatus(
                updateImage(updateAvailability(updatePrice(f1, v), v), v), v)

\* updateUrlHistory with pushState for replaceState
updateUrlHistoryPush(len, f) == IF f.currentVariant = 0 THEN len ELSE len + 1

\* ProductForm.updateUrl: history.length after replaceState
updateUrlHistory(len, f) == len

\* ProductForm.updateUrl: searchParams.set('variant', id) and replaceState
updateUrl(url, f, vs) ==
    IF f.currentVariant = 0 THEN url
    ELSE NumToString(vs[f.currentVariant].id)

\* ProductForm.checkUrlForVariant: the inputs it checks
checkUrlForVariant(chk, vs, url) ==
    LET uv == UrlVariant(vs, url)
    IN IF uv = 0 THEN chk
       ELSE [i \in OptionIdx |->
                IF vs[uv].options[i] \in OptionValues[i]
                THEN vs[uv].options[i] ELSE chk[i]]

\* new ProductForm(container): the constructor, then init()
ConstructForm(vs, url) ==
    LET cv0 == getInitialVariant(vs, url)
        uv == UrlVariant(vs, url)
        cv == IF uv # 0 THEN uv ELSE cv0
    IN updateUI([TemplateForm EXCEPT !.currentVariant = cv], vs)

\* the selections a template may render: any value, or none, per option
TemplateSelections ==
    {c \in [OptionIdx -> UNION {OptionValues[i] : i \in OptionIdx} \cup {NoValue}] :
        \A i \in OptionIdx : c[i] \in OptionValues[i] \cup {NoValue}}

\* the product the cart drawer's specifications show: one variant on
\* sale, one sold out
DefaultProduct ==
    <<MakeVariant(1, <<"S", "R">>, TRUE), MakeVariant(2, <<"M", "R">>, FALSE)>>

\* the cart line key of a variant id, and back
KeyOfId(id) == IF id = IdOf(1) THEN "a" ELSE "b"

VariantOfKey(k) == IF k = "a" THEN 1 ELSE 2

NoTimers == [reset |-> 0, avail |-> 0]

NoDbl == [armed |-> FALSE, key |-> AnyKey, final |-> 0, live |-> FALSE]

\* ------------------------------------------------------------- Init
\* the page of a product vs with URL parameter url and remote cart c0,
\* without its product form
InitSite(vs, url, c0, ajax, drawer) ==
    /\ cart = c0
    /\ isOpen = FALSE
    /\ drawerVisible = FALSE
    /\ isLoading = FALSE
    /\ shown = c0
    /\ shownCount = ItemCount(c0)
    \* CartDrawer.init: updateCount() is called and not awaited
    /\ tasks = IF drawer THEN One(Task("count", "req", AnyKey, 0)) ELSE EmptyBag
    /\ alertMsg = ""
    /\ lastLog = ""
    /\ variants = vs
    /\ urlParam = url
    /\ timers = NoTimers
    /\ ajaxCart = ajax
    /\ drawerPresent = drawer
    /\ navigated = FALSE
    /\ historyLength = 1
    /\ opsLeft = MaxOps
    /\ submits = 0
    /\ addReqs = 0
    /\ failures = 0
    /\ dbl = NoDbl

\* the page has one product form container, with valid product data, and
\* the DOMContentLoaded listener has constructed its ProductForm
BootDone ==
    /\ containers = <<"ok">>
    /\ booted = TRUE
    /\ productForms = {1}
    /\ uncaught = FALSE

\* the largest number of Wishlist calls in a run
MaxWishOps == 3

\* Wishlist.init on a page whose storage holds the list items: the
\* counters show its length
WishInit(items) ==
    /\ wishlist = items
    /\ wishCount = Len(items)
    /\ wishResult = "none"
    /\ wishOp = [op |-> "init", handle |-> ""]
    /\ wishOpsLeft = MaxWishOps
    /\ wishSaveFailed = FALSE
    /\ wishBefore = items

\* the largest number of RecentlyViewed calls in a run
MaxRecentOps == 3

\* the page whose storage holds the recently viewed list items, after the
\* products of adds were viewed in that order
RecentInit(items, adds) ==
    /\ recent = items
    /\ recentOp = [op |-> "init", handle |-> "", stored |-> FALSE]
    /\ recentOpsLeft = MaxRecentOps
    /\ recentAdds = adds

\* the content of the results container as the template renders it
TemplateResults == [kind |-> "template", query |-> <<>>]

\* PredictiveSearch after init(): no timer, no request; the results
\* container is displayed or not, as the template has it
SearchInit(shown0) ==
    /\ searchValue = <<>>
    /\ searchTimers = {}
    /\ debounceTimer = 0
    /\ searchReqs = {}
    /\ searchResults = TemplateResults
    /\ searchShown = shown0
    /\ searchLoading = FALSE
    /\ searchObs = [events |-> 0, calls |-> 0, since |-> 0, rapid |-> FALSE,
                    issued |-> <<>>, delivered |-> <<>>, dismissed |-> FALSE,
                    last |-> [kind |-> "init", id |-> 0]]

\* the largest number of CookieConsent calls in a run
MaxConsentOps == 3

\* the categories of the page's deferred scripts, in document order
ScriptCategories == <<"analytics", "marketing", "preferences">>

NoConsent == [present |-> FALSE, analytics |-> FALSE, marketing |-> FALSE,
              preferences |-> FALSE]

\* JSON.stringify(consent) as stored under STORAGE_KEY + '_details'
Details(a, m, p) ==
    [present |-> TRUE, analytics |-> a, marketing |-> m, preferences |-> p]

\* getConsent: the stored details, all false when there are none
getConsent(store) ==
    IF store.details.present THEN store.details ELSE NoConsent

\* _activateScript
activateScript(script) ==
    IF script.activated THEN script
    ELSE [activated |-> TRUE, runs |-> script.runs + 1]

\* _loadTrackingScripts that activates every deferred script as soon as
\* one of the two categories is consented
loadTrackingScriptsAnyCategory(store, scripts) ==
    LET consent == getConsent(store)
    IN [i \in DOMAIN scripts |->
            IF ScriptCategories[i] \in {"analytics", "marketing"}
               /\ (consent.analytics \/ consent.marketing)
            THEN activateScript(scripts[i]) ELSE scripts[i]]

\* _loadTrackingScripts: the deferred scripts afterwards
loadTrackingScripts(store, scripts) ==
    LET consent == getConsent(store)
    IN [i \in DOMAIN scripts |->
            IF \/ ScriptCategories[i] = "analytics" /\ consent.analytics
               \/ ScriptCategories[i] = "marketing" /\ consent.marketing
            THEN activateScript(scripts[i]) ELSE scripts[i]]

\* the banner and the scripts as the document delivers them
TemplateBanner == [display |-> TRUE, visible |-> FALSE, timers |-> 0,
                   panel |-> FALSE]

TemplateScripts ==
    [i \in DOMAIN ScriptCategories |-> [activated |-> FALSE, runs |-> 0]]

\* _showBanner
showBanner(banner) == [banner EXCEPT !.display = TRUE, !.visible = TRUE]

\* CookieConsent.init on a page with a banner: _setupShopifyPrivacy when
\* the privacy API is there (tracked: userCanBeTracked()), else
\* _setupFallback; the banner and the scripts afterwards
consentSetup(store, api, tracked, banner, scripts) ==
    IF (api /\ tracked) \/ (~api /\ store.status = "accepted")
    THEN [banner |-> [banner EXCEPT !.display = FALSE], load |-> TRUE,
          scripts |-> loadTrackingScripts(store, scripts)]
    ELSE IF ~api /\ store.status = "rejected"
    THEN [banner |-> [banner EXCEPT !.display = FALSE], load |-> FALSE,
          scripts |-> scripts]
    ELSE [banner |-> showBanner(banner), load |-> FALSE, scripts |-> scripts]

\* what the module's _setConsent leaves in storage for a consent
StoredFor(d) ==
    [status |-> IF d.analytics \/ d.marketing THEN "accepted" ELSE "rejected",
     details |-> d]

\* the page after CookieConsent.init() with store in localStorage
ConsentInit(store, api, tracked) ==
    LET r == consentSetup(store, api, tracked, TemplateBanner, TemplateScripts)
    IN /\ consentStore = store
       /\ consentScripts = r.scripts
       /\ consentBanner = r.banner
       /\ consentEnv = [api |-> api, opsLeft |-> MaxConsentOps, last |-> "init",
                        loads |-> IF r.load THEN 1 ELSE 0]

\* the other modules of the page at rest: nothing viewed before, nothing
\* typed into the search input, a first visit without the privacy API
WidgetsInit ==
    /\ RecentInit(<<>>, <<>>)
    /\ SearchInit(FALSE)
    /\ ConsentInit([status |-> "none", details |-> NoConsent], FALSE, FALSE)

\* the product page after its scripts have run at page load
InitProductPage(vs, url, chk0, c0, ajax, drawer) ==
    /\ InitSite(vs, url, c0, ajax, drawer)
    /\ checked = checkUrlForVariant(chk0, vs, url)
    /\ form = ConstructForm(vs, url)
    /\ formEvent = "load"
    /\ BootDone

\* the state after the scripts have run at page load, for a product vs,
\* a URL parameter url, a template selection chk0 and a remote cart c0,
\* with an empty wishlist
InitWith(vs, url, chk0, c0, ajax, drawer) ==
    /\ InitProductPage(vs, url, chk0, c0, ajax, drawer)
    /\ WishInit(<<>>)
    /\ WidgetsInit

\* ------------------------------------------------ CartDrawer: actions
\* a user event is possible: the page is there and the run has events left
CanAct == opsLeft > 0 /\ ~navigated

\* requests in flight that change line k and are not settled
UpdatesInFlight(k) ==
    {t \in InFlight : t.kind = "update" /\ t.key = k /\ t.pc = "req"}

AddsInFlight(k) ==
    {t \in InFlight : t.kind \in {"add", "pfadd"} /\ t.key = k /\ t.pc = "req"}

\* the observer after a user event on line k other than the pair it watches
DblSpoiledBy(k) ==
    IF dbl.armed /\ dbl.key = k THEN [dbl EXCEPT !.live = FALSE] ELSE dbl

\* CartDrawer.open: the state it leaves when it suspends at refresh()
OpenTask == Task("open", "frag", AnyKey, 0)

\* CartDrawer.close: `if (!this.isOpen) return`, then the flag is cleared
\* and the classes are removed
closeIsOpen == IF isOpen THEN FALSE ELSE isOpen

closeVisible == IF isOpen THEN FALSE ELSE drawerVisible

\* ToggleClick with open() adding the classes before it awaits refresh()
ToggleClickShowsFirst ==
    /\ CanAct /\ drawerPresent
    /\ opsLeft' = opsLeft - 1
    /\ IF isOpen
       THEN /\ isOpen' = closeIsOpen
            /\ drawerVisible' = closeVisible
            /\ UNCHANGED tasks
       ELSE /\ isOpen' = TRUE
            /\ tasks' = tasks (+) One(OpenTask)
            /\ drawerVisible' = TRUE
    /\ UNCHANGED <<cart, isLoading, shown, shownCount, alertMsg, lastLog>>
    /\ UNCHANGED <<formVars, pageVars, formEvent, submits, addReqs, failures, dbl>>

\* click on [data-cart-drawer-toggle]: toggle() is close() or open()
ToggleClick ==
    /\ CanAct /\ drawerPresent
    /\ opsLeft' = opsLeft - 1
    /\ IF isOpen
       THEN /\ isOpen' = closeIsOpen
            /\ drawerVisible' = closeVisible
            /\ UNCHANGED tasks
       ELSE /\ isOpen' = TRUE
            /\ tasks' = tasks (+) One(OpenTask)
            /\ UNCHANGED drawerVisible
    /\ UNCHANGED <<cart, isLoading, shown, shownCount, alertMsg, lastLog>>
    /\ UNCHANGED <<formVars, pageVars, formEvent, submits, addReqs, failures, dbl>>

\* click on [data-cart-drawer-close] or on the overlay: close(); both are
\* on screen only while the drawer is
CloseClick ==
    /\ CanAct /\ drawerPresent /\ drawerVisible
    /\ opsLeft' = opsLeft - 1
    /\ isOpen' = closeIsOpen
    /\ drawerVisible' = closeVisible
    /\ UNCHANGED <<cart, isLoading, shown, shownCount, tasks, alertMsg, lastLog>>
    /\ UNCHANGED <<formVars, pageVars, formEvent, submits, addReqs, failures, dbl>>

\* keydown Escape: close() behind `e.key === 'Escape' && this.isOpen`
EscapeKey ==
    /\ CanAct /\ drawerPresent
    /\ opsLeft' = opsLeft - 1
    /\ isOpen' = closeIsOpen
    /\ drawerVisible' = closeVisible
    /\ UNCHANGED <<cart, isLoading, shown, shownCount, tasks, alertMsg, lastLog>>
    /\ UNCHANGED <<formVars, pageVars, formEvent, submits, addReqs, failures, dbl>>

\* parseInt(quantityEl?.textContent || '1', 10) for the row of line k
DisplayedQty(k) == IF shown[k] > 0 THEN shown[k] ELSE 1

\* changeQuantityTo that sends the change itself, not the new quantity
changeQuantityToDelta(k, change) == Max(0, change)

\* CartDrawer.changeQuantity: the absolute quantity it asks for
\* (0: removeItem)
changeQuantityTo(k, change) == Max(0, DisplayedQty(k) + change)

\* CartDrawer.updateItem up to its fetch: the request it sends
updateItemTask(k, quantity) == Task("update", "req", k, quantity)

\* the buttons of a row exist while the row is displayed and the drawer is
\* on screen
RowOnScreen(k) == drawerPresent /\ drawerVisible /\ shown[k] > 0

\* click on [data-cart-quantity-plus]: changeQuantity(key, 1)
ClickPlus(k) ==
    /\ CanAct /\ RowOnScreen(k)
    /\ opsLeft' = opsLeft - 1
    /\ isLoading' = TRUE
    /\ LET firsts == UpdatesInFlight(k)
           quiet == firsts = {} /\ AddsInFlight(k) = {}
           t == [updateItemTask(k, changeQuantityTo(k, 1)) EXCEPT
                    !.plus = TRUE,
                    !.base = IF quiet /\ shown[k] = cart[k] THEN cart[k] ELSE -1]
           pair == /\ ~dbl.armed
                   /\ AddsInFlight(k) = {}
                   /\ \E f \in firsts :
                        /\ firsts = {f} /\ CopiesIn(f, tasks) = 1
                        /\ f.plus /\ f.base >= 0 /\ f.net # "fail"
                        /\ shown[k] = f.base
                        /\ cart[k] \in {f.base, f.base + 1}
                        /\ f.base + 2 <= MaxQty
       IN /\ tasks' = tasks (+) One(t)
          /\ dbl' = IF pair
                    THEN [armed |-> TRUE, key |-> k, live |-> TRUE,
                          final |-> (CHOOSE f \in firsts : TRUE).base + 2]
                    ELSE DblSpoiledBy(k)
    /\ UNCHANGED <<cart, isOpen, drawerVisible, shown, shownCount, alertMsg, lastLog>>
    /\ UNCHANGED <<formVars, pageVars, formEvent, submits, addReqs, failures>>

\* click on [data-cart-quantity-minus]: changeQuantity(key, -1)
ClickMinus(k) ==
    /\ CanAct /\ RowOnScreen(k)
    /\ opsLeft' = opsLeft - 1
    /\ isLoading' = TRUE
    /\ tasks' = tasks (+) One(updateItemTask(k, changeQuantityTo(k, -1)))
    /\ dbl' = DblSpoiledBy(k)
    /\ UNCHANGED <<cart, isOpen, drawerVisible, shown, shownCount, alertMsg, lastLog>>
    /\ UNCHANGED <<formVars, pageVars, formEvent, submits, addReqs, failures>>

\* click on [data-cart-remove]: removeItem(key) is updateItem(key, 0)
ClickRemove(k) ==
    /\ CanAct /\ RowOnScreen(k)
    /\ opsLeft' = opsLeft - 1
    /\ isLoading' = TRUE
    /\ tasks' = tasks (+) One(updateItemTask(k, 0))
    /\ dbl' = DblSpoiledBy(k)
    /\ UNCHANGED <<cart, isOpen, drawerVisible, shown, shownCount, alertMsg, lastLog>>
    /\ UNCHANGED <<formVars, pageVars, formEvent, submits, addReqs, failures>>

\* --------------------------------------------------- the remote cart
\* the task t of the bag replaced by u
Replace(t, u) == (tasks (-) One(t)) (+) One(u)

\* the remote cart accepts the request of t: a change of an existing line
\* within the stock limit, an add of a purchasable variant within it
Acceptable(t) ==
    IF t.kind = "update" THEN cart[t.key] > 0 /\ t.qty <= MaxQty
    ELSE /\ cart[t.key] + t.qty <= MaxQty
         /\ VariantOfKey(t.key) <= Len(variants)
         /\ variants[VariantOfKey(t.key)].available

\* the remote cart after the request of t
Applied(t) ==
    IF t.kind = "update" THEN [cart EXCEPT ![t.key] = t.qty]
    ELSE [cart EXCEPT ![t.key] = @ + t.qty]

\* the remote cart serves a change or an add request and answers success
ServeMutation(t) ==
    /\ t \in InFlight /\ t.net = "sent" /\ t.pc = "req"
    /\ t.kind \in {"update", "add", "pfadd"}
    /\ Acceptable(t)
    /\ cart' = Applied(t)
    /\ tasks' = Replace(t, [t EXCEPT !.net = "ok"])
    /\ UNCHANGED <<isOpen, drawerVisible, isLoading, shown, shownCount, alertMsg, lastLog>>
    /\ UNCHANGED <<formVars, pageVars, envVars>>

\* the remote cart serves a fetch of the fragment (/cart?section_id=...) or
\* of the summary (/cart.js): the response carries the cart as it is now
ServeRead(t) ==
    /\ t \in InFlight /\ t.net = "sent"
    /\ t.pc = "frag" \/ t.kind = "count"
    /\ tasks' = Replace(t, IF t.kind = "count"
                           THEN [t EXCEPT !.net = "ok", !.qty = ItemCount(cart)]
                           ELSE [t EXCEPT !.net = "ok", !.snap = cart])
    /\ UNCHANGED <<cart, isOpen, drawerVisible, isLoading, shown, shownCount, alertMsg, lastLog>>
    /\ UNCHANGED <<formVars, pageVars, envVars>>

\* how a request can fail: the fetch is rejected ("fail"); for an add, also
\* a non-success status whose body has a description field, has none, or is
\* not JSON at all (response.json() throws)
Failures(t) ==
    IF t.kind = "add" /\ t.pc = "req"
    THEN {"fail", "errdesc", "errnodesc", "errbadjson"}
    ELSE {"fail"}

\* a request fails (rejected fetch or non-success status): the remote cart
\* is not changed
ServeFail(t, how) ==
    /\ t \in InFlight /\ t.net = "sent"
    /\ how \in Failures(t)
    /\ failures < MaxFailures
    /\ tasks' = Replace(t, [t EXCEPT !.net = how])
    /\ failures' = failures + 1
    /\ dbl' = IF t.kind = "update" THEN DblSpoiledBy(t.key) ELSE dbl
    /\ UNCHANGED <<cart, isOpen, drawerVisible, isLoading, shown, shownCount, alertMsg, lastLog>>
    /\ UNCHANGED <<formVars, pageVars, opsLeft, formEvent, submits, addReqs>>

\* --------------------------------------- CartDrawer: continuations
Settled(t) == t \in InFlight /\ t.net # "sent"

CountTask == Task("count", "req", AnyKey, 0)

\* CartDrawer.refresh from the response of its fetch on: the fragment it
\* displays and the updateCount() call it starts (not awaited)
refreshShown(t) == IF t.net = "ok" THEN t.snap ELSE shown

\* refreshSpawns with updateCount() called after the try block
refreshSpawnsAlways(t) == One(CountTask)

refreshSpawns(t) == IF t.net = "ok" THEN One(CountTask) ELSE EmptyBag

refreshLog(t) == IF t.net = "ok" THEN lastLog ELSE "CartDrawer: Refresh failed"

\* CartDrawer.updateItem resumes: after the change request, refresh() on
\* success and `finally` on failure; after refresh(), `finally`
DeliverUpdate(t) ==
    /\ Settled(t) /\ t.kind = "update"
    /\ IF t.pc = "req" /\ t.net = "ok"
       THEN /\ tasks' = Replace(t, [t EXCEPT !.pc = "frag", !.net = "sent",
                                              !.plus = FALSE, !.base = -1])
            /\ UNCHANGED <<isLoading, shown>>
       ELSE IF t.pc = "req"
       THEN /\ tasks' = tasks (-) One(t)
            /\ isLoading' = FALSE
            /\ UNCHANGED shown
       ELSE /\ tasks' = (tasks (-) One(t)) (+) refreshSpawns(t)
            /\ shown' = refreshShown(t)
            /\ isLoading' = FALSE
    /\ lastLog' = IF t.net = "ok" THEN lastLog
                  ELSE IF t.pc = "req" THEN "CartDrawer: Update failed"
                  ELSE refreshLog(t)
    /\ UNCHANGED <<cart, isOpen, drawerVisible, shownCount, alertMsg>>
    /\ UNCHANGED <<formVars, pageVars, envVars>>

\* CartDrawer.open resumes after refresh(): the classes are added
DeliverOpen(t) ==
    /\ Settled(t) /\ t.kind = "open"
    /\ tasks' = (tasks (-) One(t)) (+) refreshSpawns(t)
    /\ shown' = refreshShown(t)
    /\ drawerVisible' = TRUE
    /\ lastLog' = refreshLog(t)
    /\ UNCHANGED <<cart, isOpen, isLoading, shownCount, alertMsg>>
    /\ UNCHANGED <<formVars, pageVars, envVars>>

\* CartDrawer.updateCount resumes: every [data-cart-count] is written
DeliverCount(t) ==
    /\ Settled(t) /\ t.kind = "count"
    /\ tasks' = tasks (-) One(t)
    /\ shownCount' = IF t.net = "ok" THEN t.qty ELSE shownCount
    /\ lastLog' = IF t.net = "ok" THEN lastLog ELSE "CartDrawer: Count update failed"
    /\ UNCHANGED <<cart, isOpen, drawerVisible, isLoading, shown, alertMsg>>
    /\ UNCHANGED <<formVars, pageVars, envVars>>

\* addItemAlert that alerts a fixed text whatever the response says
addItemAlertFixed(net) == "Failed to add item to cart"

\* the text addItem alerts: e.message || 'Failed to add item to cart',
\* e being the Error thrown for a non-success status, the SyntaxError of
\* response.json() or the TypeError of a rejected fetch
addItemAlert(net) ==
    CASE net = "errdesc" -> "<description>"
      [] net = "errnodesc" -> "Failed to add item"
      [] net = "errbadjson" -> "Unexpected token"
      [] OTHER -> "Failed to fetch"

\* DeliverAdd with the button restored after the try block instead of in
\* `finally`: the failure path returns without it
DeliverAddNoFinally(t) ==
    /\ Settled(t) /\ t.kind = "add"
    /\ IF t.pc = "req" /\ t.net = "ok"
       THEN /\ tasks' = Replace(t, [t EXCEPT !.pc = "frag", !.net = "sent"])
            /\ UNCHANGED <<isOpen, shown, alertMsg, lastLog, form>>
       ELSE IF t.pc = "req"
       THEN /\ tasks' = tasks (-) One(t)
            /\ alertMsg' = addItemAlert(t.net)
            /\ lastLog' = "CartDrawer: Add failed"
            /\ UNCHANGED <<isOpen, shown, form>>
       ELSE /\ tasks' = ((tasks (-) One(t)) (+) refreshSpawns(t))
                            (+) (IF isOpen THEN EmptyBag ELSE One(OpenTask))
            /\ shown' = refreshShown(t)
            /\ isOpen' = TRUE
            /\ lastLog' = refreshLog(t)
            /\ form' = [form EXCEPT !.btnDisabled = FALSE, !.btnText = t.text]
            /\ UNCHANGED alertMsg
    /\ UNCHANGED <<cart, drawerVisible, isLoading, shownCount>>
    /\ UNCHANGED <<variants, urlParam, checked, timers, pageVars, envVars>>

\* DeliverAdd without the this.open() call after the refresh
DeliverAddNoOpen(t) ==
    /\ Settled(t) /\ t.kind = "add"
    /\ IF t.pc = "req" /\ t.net = "ok"
       THEN /\ tasks' = Replace(t, [t EXCEPT !.pc = "frag", !.net = "sent"])
            /\ UNCHANGED <<isOpen, shown, alertMsg, lastLog, form>>
       ELSE IF t.pc = "req"
       THEN /\ tasks' = tasks (-) One(t)
            /\ alertMsg' = addItemAlert(t.net)
            /\ lastLog' = "CartDrawer: Add failed"
            /\ form' = [form EXCEPT !.btnDisabled = FALSE, !.btnText = t.text]
            /\ UNCHANGED <<isOpen, shown>>
       ELSE /\ tasks' = (tasks (-) One(t)) (+) refreshSpawns(t)
            /\ shown' = refreshShown(t)
            /\ UNCHANGED isOpen
            /\ lastLog' = refreshLog(t)
            /\ form' = [form EXCEPT !.btnDisabled = FALSE, !.btnText = t.text]
            /\ UNCHANGED alertMsg
    /\ UNCHANGED <<cart, drawerVisible, isLoading, shownCount>>
    /\ UNCHANGED <<variants, urlParam, checked, timers, pageVars, envVars>>

\* CartDrawer.addItem resumes: after the add request, refresh() on success,
\* alert and `finally` on failure; after refresh(), open() (not awaited),
\* the cart:add event and `finally`
DeliverAdd(t) ==
    /\ Settled(t) /\ t.kind = "add"
    /\ IF t.pc = "req" /\ t.net = "ok"
       THEN /\ tasks' = Replace(t, [t EXCEPT !.pc = "frag", !.net = "sent"])
            /\ UNCHANGED <<isOpen, shown, alertMsg, lastLog, form>>
       ELSE IF t.pc = "req"
       THEN /\ tasks' = tasks (-) One(t)
            /\ alertMsg' = addItemAlert(t.net)
            /\ lastLog' = "CartDrawer: Add failed"
            /\ form' = [form EXCEPT !.btnDisabled = FALSE, !.btnText = t.text]
            /\ UNCHANGED <<isOpen, shown>>
       ELSE /\ tasks' = ((tasks (-) One(t)) (+) refreshSpawns(t))
                            (+) (IF isOpen THEN EmptyBag ELSE One(OpenTask))
            /\ shown' = refreshShown(t)
            /\ isOpen' = TRUE
            /\ lastLog' = refreshLog(t)
            /\ form' = [form EXCEPT !.btnDisabled = FALSE, !.btnText = t.text]
            /\ UNCHANGED alertMsg
    /\ UNCHANGED <<cart, drawerVisible, isLoading, shownCount>>
    /\ UNCHANGED <<variants, urlParam, checked, timers, pageVars, envVars>>

\* ------------------------------------------------ add-to-cart submit
\* A submit event of the product form.  The form's own listener
\* (ProductForm.onFormSubmit) runs first, then the document's listener
\* (CartDrawer._bindEvents), each up to its first await; neither stops the
\* other.  When neither prevents the default, the browser submits the
\* form itself and leaves the page.
Submit ==
    /\ CanAct /\ ~form.btnDisabled
    /\ submits < MaxSubmits
    /\ LET pf == ajaxCart /\ 1 \in productForms
           cd == drawerPresent
           native == ~pf /\ ~cd
           key == KeyOfId(form.variantIdInput)
           qty == form.quantityInput
           f1 == IF pf THEN updateAddToCartState(form, FALSE, "Adding...") ELSE form
           f2 == IF cd THEN [f1 EXCEPT !.btnDisabled = TRUE, !.btnText = "Adding..."]
                 ELSE f1
           req == Task("add", "req", key, qty)
       IN /\ form' = f2
          /\ tasks' = (tasks (+) (IF pf THEN One(Task("pfadd", "req", key, qty))
                                  ELSE EmptyBag))
                          (+) (IF cd THEN One([req EXCEPT !.text = f1.btnText])
                               ELSE EmptyBag)
          /\ addReqs' = addReqs + (IF pf THEN 1 ELSE 0) + (IF cd THEN 1 ELSE 0)
                            + (IF native THEN 1 ELSE 0)
          /\ navigated' = native
          /\ historyLength' = historyLength + (IF native THEN 1 ELSE 0)
          /\ cart' \in (IF native
                        THEN {cart} \cup (IF Acceptable(req) THEN {Applied(req)} ELSE {})
                        ELSE {cart})
          /\ dbl' = DblSpoiledBy(key)
    /\ opsLeft' = opsLeft - 1
    /\ submits' = submits + 1
    /\ formEvent' = "submit"
    /\ UNCHANGED <<isOpen, drawerVisible, isLoading, shown, shownCount, alertMsg, lastLog>>
    /\ UNCHANGED <<variants, urlParam, checked, timers, ajaxCart, drawerPresent, failures>>
    /\ UNCHANGED moduleVars

\* ProductForm.onFormSubmit resumes: 'Added!' and the 1.5 s timer on
\* success, 'Error - Try Again' and the 2 s timer on failure
DeliverPfAdd(t) ==
    /\ Settled(t) /\ t.kind = "pfadd"
    /\ tasks' = tasks (-) One(t)
    /\ IF t.net = "ok"
       THEN /\ form' = updateAddToCartState(form, TRUE, "Added!")
            /\ timers' = [timers EXCEPT !.reset = @ + 1]
            /\ UNCHANGED lastLog
       ELSE /\ form' = updateAddToCartState(form, TRUE, "Error - Try Again")
            /\ timers' = [timers EXCEPT !.avail = @ + 1]
            /\ lastLog' = "Add to cart error:"
    /\ UNCHANGED <<cart, isOpen, drawerVisible, isLoading, shown, shownCount, alertMsg>>
    /\ UNCHANGED <<variants, urlParam, checked, pageVars, envVars>>

\* the 1.5 s timer of a successful submit fires
TimerReset ==
    /\ ~navigated /\ timers.reset > 0
    /\ timers' = [timers EXCEPT !.reset = @ - 1]
    /\ form' = updateAddToCartState(form, TRUE, "Add to Cart")
    /\ UNCHANGED <<cartVars, variants, urlParam, checked, pageVars, envVars>>

\* the 2 s timer of a failed submit fires: updateAvailability(), which
\* throws in the callback when there is no current variant
TimerAvail ==
    /\ ~navigated /\ timers.avail > 0
    /\ timers' = [timers EXCEPT !.avail = @ - 1]
    /\ form' = IF form.currentVariant = 0 THEN form
               ELSE updateAvailability(form, variants[form.currentVariant])
    /\ UNCHANGED <<cartVars, variants, urlParam, checked, pageVars, envVars>>

\* ------------------------------------------------ ProductForm: actions
\* change event of the input of option index i with value val:
\* ProductForm.onOptionChange
OptionChange(i, val) ==
    /\ ~navigated /\ 1 \in productForms
    /\ val \in OptionValues[i] /\ checked[i] # val
    /\ checked' = [checked EXCEPT ![i] = val]
    /\ LET selectedOptions == getSelectedOptions(checked')
           f == [form EXCEPT !.currentVariant =
                                getVariantFromOptions(variants, selectedOptions)]
       IN /\ form' = updateUI(f, variants)
          /\ urlParam' = updateUrl(urlParam, f, variants)
          /\ historyLength' = updateUrlHistory(historyLength, f)
    /\ formEvent' = "change"
    /\ UNCHANGED <<cartVars, variants, timers, ajaxCart, drawerPresent, navigated>>
    /\ UNCHANGED moduleVars
    /\ UNCHANGED <<opsLeft, submits, addReqs, failures, dbl>>

\* click on [data-quantity-minus] or [data-quantity-plus]:
\* ProductForm.updateQuantity
UpdateQuantity(change) ==
    /\ ~navigated /\ 1 \in productForms
    /\ form.quantityInput + change <= MaxQty
    /\ form' = [form EXCEPT !.quantityInput = Max(1, @ + change)]
    /\ formEvent' = "quantity"
    /\ UNCHANGED <<cartVars, variants, urlParam, checked, timers, pageVars>>
    /\ UNCHANGED <<opsLeft, submits, addReqs, failures, dbl>>

\* ---------------------------------------- DOMContentLoaded initializer
\* the largest number of [data-product-form] containers on a page
MaxContainers == 4

\* the ProductJson element of a container: present with product JSON,
\* absent (getElementById gives null), or with content JSON.parse rejects
ProductData == {"ok", "absent", "invalid"}

ContainerLists == UNION {[1..n -> ProductData] : n \in 1..MaxContainers}

\* querySelectorAll('[data-product-form]').forEach(c => new ProductForm(c))
\* from container i on: the constructor throws at JSON.parse(...) or at
\* `.textContent` of null, and the exception ends the forEach
RECURSIVE ConstructFrom(_, _)
ConstructFrom(cs, i) ==
    IF i > Len(cs) THEN [forms |-> {}, thrown |-> FALSE]
    ELSE IF cs[i] # "ok" THEN [forms |-> {}, thrown |-> TRUE]
    ELSE LET rest == ConstructFrom(cs, i + 1)
         IN [forms |-> {i} \cup rest.forms, thrown |-> rest.thrown]

\* the DOMContentLoaded listener; the form of the first container is the
\* one whose state the model follows
DOMContentLoaded ==
    /\ ~booted
    /\ booted' = TRUE
    /\ LET r == ConstructFrom(containers, 1)
       IN /\ productForms' = r.forms
          /\ uncaught' = r.thrown
          /\ IF 1 \in r.forms
             THEN /\ form' = ConstructForm(variants, urlParam)
                  /\ checked' = checkUrlForVariant(checked, variants, urlParam)
                  /\ formEvent' = "load"
             ELSE UNCHANGED <<form, checked, formEvent>>
    /\ UNCHANGED <<cartVars, variants, urlParam, timers, containers>>
    /\ UNCHANGED <<ajaxCart, drawerPresent, navigated, historyLength, wishVars>>
    /\ UNCHANGED widgetVars
    /\ UNCHANGED <<opsLeft, submits, addReqs, failures, dbl>>

\* ------------------------------------------------------------ Wishlist
MAX_ITEMS == 50

\* the handle of product n
Handle(n) == ToString(n)

\* the list a visitor has after adding products 1..n in that order
FullList(n) == [i \in 1..n |-> Handle(i)]

\* the stored lists at page load: empty, short, one below the cap, full
StoredLists == {FullList(n) : n \in {0, 1, 2, MAX_ITEMS - 1, MAX_ITEMS}}

\* the handles passed to the calls: the empty handle, the oldest entries,
\* the newest entry of a full list, and handles beyond it
TestHandles ==
    {"", Handle(1), Handle(2), Handle(MAX_ITEMS), Handle(MAX_ITEMS + 1),
     Handle(MAX_ITEMS + 2)}

\* items.includes(handle)
includes(items, handle) == \E i \in 1..Len(items) : items[i] = handle

\* items.indexOf(handle), from 1; 0 for -1
indexOf(items, handle) ==
    IF includes(items, handle)
    THEN CHOOSE i \in 1..Len(items) :
            items[i] = handle /\ \A j \in 1..(i - 1) : items[j] # handle
    ELSE 0

\* items.splice(index, 1)
splice(items, index) ==
    [i \in 1..(Len(items) - 1) |-> IF i < index THEN items[i] ELSE items[i + 1]]

\* a call that returns ret without saving
NoSave(items, ret) == [ret |-> ret, save |-> FALSE, items |-> items]

\* add that evicts only when the list is longer than the cap
addEvictsLate(items, handle) ==
    IF handle = "" THEN NoSave(items, "false")
    ELSE IF includes(items, handle) THEN NoSave(items, "false")
    ELSE LET kept == IF Len(items) > MAX_ITEMS THEN Tail(items) ELSE items
         IN [ret |-> "true", save |-> TRUE, items |-> Append(kept, handle)]

\* add that appends without looking for the handle in the list
addNoCheck(items, handle) ==
    IF handle = "" THEN NoSave(items, "false")
    ELSE LET kept == IF Len(items) >= MAX_ITEMS THEN Tail(items) ELSE items
         IN [ret |-> "true", save |-> TRUE, items |-> Append(kept, handle)]

\* Wishlist.add: what it returns, whether it calls _save, and with which list
add(items, handle) ==
    IF handle = "" THEN NoSave(items, "false")
    ELSE IF includes(items, handle) THEN NoSave(items, "false")
    ELSE LET kept == IF Len(items) >= MAX_ITEMS THEN Tail(items) ELSE items
         IN [ret |-> "true", save |-> TRUE, items |-> Append(kept, handle)]

\* Wishlist.remove
remove(items, handle) ==
    LET index == indexOf(items, handle)
    IN IF index = 0 THEN NoSave(items, "false")
       ELSE [ret |-> "true", save |-> TRUE, items |-> splice(items, index)]

\* Wishlist.toggle: the return values of remove and add are dropped
toggle(items, handle) ==
    IF includes(items, handle)
    THEN [remove(items, handle) EXCEPT !.ret = "false"]
    ELSE [add(items, handle) EXCEPT !.ret = "true"]

\* Wishlist.clear: returns undefined
clear(items) == [ret |-> "undefined", save |-> TRUE, items |-> <<>>]

\* a Wishlist call with outcome r; stored tells whether setItem went
\* through (it throws when the quota is exceeded or storage is denied, and
\* _save then skips _updateCounters and logs)
WishCall(op, handle, r, stored) ==
    /\ wishOpsLeft > 0
    /\ wishOpsLeft' = wishOpsLeft - 1
    /\ wishOp' = [op |-> op, handle |-> handle]
    /\ wishResult' = r.ret
    /\ IF r.save /\ stored
       THEN wishlist' = r.items /\ wishCount' = Len(r.items)
       ELSE UNCHANGED <<wishlist, wishCount>>
    /\ wishSaveFailed' = (wishSaveFailed \/ (r.save /\ ~stored))
    /\ wishBefore' = wishlist
    /\ UNCHANGED <<cartVars, formVars, envVars, bootVars, widgetVars>>
    /\ UNCHANGED <<ajaxCart, drawerPresent, navigated, historyLength>>

WishAdd(handle, stored) == WishCall("add", handle, add(wishlist, handle), stored)

WishRemove(handle, stored) ==
    WishCall("remove", handle, remove(wishlist, handle), stored)

WishToggle(handle, stored) ==
    WishCall("toggle", handle, toggle(wishlist, handle), stored)

WishClear(stored) == WishCall("clear", "", clear(wishlist), stored)

\* ------------------------------------------------------ RecentlyViewed
RECENT_MAX_ITEMS == 12

\* the stored list after products 1..n were viewed in that order
RecentList(n) == [i \in 1..n |-> Handle(n + 1 - i)]

\* the numbers of products viewed before the page load: none, few, one
\* below the cap, the cap
RecentSizes == {0, 1, 2, RECENT_MAX_ITEMS - 1, RECENT_MAX_ITEMS}

\* the handles passed to add: the empty handle, the least recently viewed
\* products, the latest of a full list, and products not viewed before
RecentHandles ==
    {"", Handle(1), Handle(2), Handle(RECENT_MAX_ITEMS),
     Handle(RECENT_MAX_ITEMS + 1), Handle(RECENT_MAX_ITEMS + 2)}

\* items.filter(h => h !== handle)
filterOut(items, handle) == SelectSeq(items, LAMBDA h : h # handle)

\* add that does not remove the handle before putting it in front
RecentAddNoFilter(items, handle) ==
    IF handle = "" THEN [save |-> FALSE, items |-> items]
    ELSE LET unshifted == <<handle>> \o items
         IN [save |-> TRUE,
             items |-> IF Len(unshifted) > RECENT_MAX_ITEMS
                       THEN SubSeq(unshifted, 1, RECENT_MAX_ITEMS)
                       ELSE unshifted]

\* add that keeps the last MAX_ITEMS entries on overflow
RecentAddKeepsTail(items, handle) ==
    IF handle = "" THEN [save |-> FALSE, items |-> items]
    ELSE LET unshifted == <<handle>> \o filterOut(items, handle)
         IN [save |-> TRUE,
             items |-> IF Len(unshifted) > RECENT_MAX_ITEMS
                       THEN SubSeq(unshifted, 2, RECENT_MAX_ITEMS + 1)
                       ELSE unshifted]

\* RecentlyViewed.add: whether it calls _save, and with which list
RecentAdd(items, handle) ==
    IF handle = "" THEN [save |-> FALSE, items |-> items]
    ELSE LET unshifted == <<handle>> \o filterOut(items, handle)
         IN [save |-> TRUE,
             items |-> IF Len(unshifted) > RECENT_MAX_ITEMS
                       THEN SubSeq(unshifted, 1, RECENT_MAX_ITEMS)
                       ELSE unshifted]

\* RecentlyViewed.clear
RecentClear(items) == [save |-> TRUE, items |-> <<>>]

\* a RecentlyViewed call with outcome r; stored tells whether setItem went
\* through (_save logs when it throws)
RecentCall(op, handle, r, stored) ==
    /\ recentOpsLeft > 0
    /\ recentOpsLeft' = recentOpsLeft - 1
    /\ recentOp' = [op |-> op, handle |-> handle, stored |-> r.save /\ stored]
    /\ IF r.save /\ stored
       THEN /\ recent' = r.items
            /\ recentAdds' = IF op = "add" THEN Append(recentAdds, handle)
                              ELSE <<>>
       ELSE UNCHANGED <<recent, recentAdds>>
    /\ UNCHANGED <<cartVars, formVars, envVars, bootVars, wishVars, searchVars>>
    /\ UNCHANGED consentVars
    /\ UNCHANGED <<ajaxCart, drawerPresent, navigated, historyLength>>

RecentlyViewedAdd(handle, stored) ==
    RecentCall("add", handle, RecentAdd(recent, handle), stored)

RecentlyViewedClear(stored) ==
    RecentCall("clear", "", RecentClear(recent), stored)

\* ---------------------------------------------------- PredictiveSearch
DEBOUNCE_MS == 300
MIN_CHARS == 2

\* the largest number of input events in a run
MaxSearchInputs == 3

\* the texts typed into the search input
SearchValues ==
    {<<>>, <<"a">>, <<"a", "b">>, <<"a", "b", "c">>, <<"a", " ">>}

\* the time that passes between two events, in ms
Elapsed == {100, 200}

RECURSIVE StripTrailing(_)
StripTrailing(s) ==
    IF s # <<>> /\ s[Len(s)] = " " THEN StripTrailing(SubSeq(s, 1, Len(s) - 1))
    ELSE s

\* String.prototype.trim
trim(s) == StripTrailing(StripSpaces(s))

\* _debounce that does not clear the pending timer
debounceNoClear(pending, timer, id) ==
    pending \cup {[id |-> id, left |-> DEBOUNCE_MS]}

\* _debounce: the pending timers after clearTimeout(this.debounceTimer)
\* and setTimeout(fn, DEBOUNCE_MS), whose timer gets the identifier id
debounce(pending, timer, id) ==
    {t \in pending : t.id # timer} \cup {[id |-> id, left |-> DEBOUNCE_MS]}

\* the input listener: every input event re-arms the debounce
InputEvent(v) ==
    /\ searchObs.events < MaxSearchInputs
    /\ v # searchValue
    /\ searchValue' = v
    /\ searchTimers' = debounce(searchTimers, debounceTimer, searchObs.events + 1)
    /\ debounceTimer' = searchObs.events + 1
    /\ searchObs' = [searchObs EXCEPT
            !.events = @ + 1, !.since = 0,
            !.rapid = @ \/ (\E t \in searchTimers : t.left > 0),
            !.last = [kind |-> "input", id |-> searchObs.events + 1]]
    /\ UNCHANGED <<searchReqs, searchResults, searchShown, searchLoading>>
    /\ UNCHANGED <<cartVars, formVars, envVars, bootVars, wishVars, recentVars>>
    /\ UNCHANGED consentVars
    /\ UNCHANGED <<ajaxCart, drawerPresent, navigated, historyLength>>

\* d ms pass while a timer is pending and none is due
Advance(d) ==
    /\ searchTimers # {}
    /\ \A t \in searchTimers : t.left > 0
    /\ searchTimers' = {[t EXCEPT !.left = Max(0, t.left - d)] : t \in searchTimers}
    /\ searchObs' = [searchObs EXCEPT
            !.since = IF @ + d > DEBOUNCE_MS THEN DEBOUNCE_MS ELSE @ + d,
            !.last = [kind |-> "time", id |-> 0]]
    /\ UNCHANGED <<searchValue, debounceTimer, searchReqs, searchResults,
                   searchShown, searchLoading>>
    /\ UNCHANGED <<cartVars, formVars, envVars, bootVars, wishVars, recentVars>>
    /\ UNCHANGED consentVars
    /\ UNCHANGED <<ajaxCart, drawerPresent, navigated, historyLength>>

\* a due timer runs its callback, search(e.target.value.trim()), up to
\* the return or the first await
TimerFire(t) ==
    /\ t.left = 0
    /\ searchTimers' = searchTimers \ {t}
    /\ LET query == trim(searchValue)
           seq == Len(searchObs.issued) + 1
       IN IF Len(query) < MIN_CHARS
          THEN /\ searchShown' = FALSE
               /\ searchObs' = [searchObs EXCEPT
                       !.calls = @ + 1, !.dismissed = TRUE,
                       !.last = [kind |-> "timer", id |-> t.id]]
               /\ UNCHANGED <<searchLoading, searchReqs>>
          ELSE /\ searchLoading' = TRUE
               /\ searchReqs' = searchReqs \cup
                       {[seq |-> seq, query |-> query, pc |-> "fetch"]}
               /\ searchObs' = [searchObs EXCEPT
                       !.calls = @ + 1, !.dismissed = FALSE,
                       !.issued = Append(@, query),
                       !.last = [kind |-> "timer", id |-> t.id]]
               /\ UNCHANGED searchShown
    /\ UNCHANGED <<searchValue, debounceTimer, searchResults>>
    /\ UNCHANGED <<cartVars, formVars, envVars, bootVars, wishVars, recentVars>>
    /\ UNCHANGED consentVars
    /\ UNCHANGED <<ajaxCart, drawerPresent, navigated, historyLength>>

\* the focus listener
SearchFocus ==
    /\ searchShown' = IF Len(searchValue) >= MIN_CHARS THEN TRUE ELSE searchShown
    /\ searchObs' = [searchObs EXCEPT
            !.dismissed = FALSE, !.last = [kind |-> "focus", id |-> 0]]
    /\ UNCHANGED <<searchValue, searchTimers, debounceTimer, searchReqs,
                   searchResults, searchLoading>>
    /\ UNCHANGED <<cartVars, formVars, envVars, bootVars, wishVars, recentVars>>
    /\ UNCHANGED consentVars
    /\ UNCHANGED <<ajaxCart, drawerPresent, navigated, historyLength>>

\* the document listeners that call _hideResults: a click outside
\* [data-predictive-search] ("click") and the Escape key ("escape")
SearchDismiss(kind) ==
    /\ searchShown' = FALSE
    /\ searchObs' = [searchObs EXCEPT
            !.dismissed = TRUE, !.last = [kind |-> kind, id |-> 0]]
    /\ UNCHANGED <<searchValue, searchTimers, debounceTimer, searchReqs,
                   searchResults, searchLoading>>
    /\ UNCHANGED <<cartVars, formVars, envVars, bootVars, wishVars, recentVars>>
    /\ UNCHANGED consentVars
    /\ UNCHANGED <<ajaxCart, drawerPresent, navigated, historyLength>>

\* the message of the catch block
SearchErrorContent == [kind |-> "error", query |-> <<>>]

\* the end of a search() call r with content in the results container:
\* _showResults and, in finally, _hideLoading
SearchSettle(r, content) ==
    /\ searchReqs' = searchReqs \ {r}
    /\ searchResults' = content
    /\ searchShown' = TRUE
    /\ searchLoading' = FALSE
    /\ searchObs' = [searchObs EXCEPT
            !.delivered = Append(@, r.seq),
            !.last = [kind |-> "response", id |-> r.seq]]

\* the fetch of call r settles: fulfilled with an ok response ("ok"), with
\* a non-ok response ("notok"), or rejected ("rejected")
SearchResponse(r, how) ==
    /\ r.pc = "fetch"
    /\ IF how = "ok"
       THEN /\ searchReqs' = (searchReqs \ {r}) \cup {[r EXCEPT !.pc = "text"]}
            /\ searchObs' = [searchObs EXCEPT
                    !.last = [kind |-> "fetched", id |-> r.seq]]
            /\ UNCHANGED <<searchResults, searchShown, searchLoading>>
       ELSE SearchSettle(r, SearchErrorContent)
    /\ UNCHANGED <<searchValue, searchTimers, debounceTimer>>
    /\ UNCHANGED <<cartVars, formVars, envVars, bootVars, wishVars, recentVars>>
    /\ UNCHANGED consentVars
    /\ UNCHANGED <<ajaxCart, drawerPresent, navigated, historyLength>>

\* what a response writes only if its call is the latest one issued
responseContentLatestOnly(r, current, latest) ==
    IF r.seq = latest THEN [kind |-> "results", query |-> r.query] ELSE current

\* what the response of call r writes into the results container, whose
\* content is current, when latest calls were issued: the section rendered
\* for r's query
responseContent(r, current, latest) == [kind |-> "results", query |-> r.query]

\* response.text() of call r settles: fulfilled ("ok") or rejected
SearchBody(r, how) ==
    /\ r.pc = "text"
    /\ SearchSettle(r, IF how = "ok"
                       THEN responseContent(r, searchResults, Len(searchObs.issued))
                       ELSE SearchErrorContent)
    /\ UNCHANGED <<searchValue, searchTimers, debounceTimer>>
    /\ UNCHANGED <<cartVars, formVars, envVars, bootVars, wishVars, recentVars>>
    /\ UNCHANGED consentVars
    /\ UNCHANGED <<ajaxCart, drawerPresent, navigated, historyLength>>

\* ------------------------------------------------------ CookieConsent
\* the stored items at page load: none on a first visit, else what
\* _setConsent wrote for a consent
ConsentStores ==
    {[status |-> "none", details |-> NoConsent]}
    \cup {StoredFor(Details(a, m, p)) : a \in BOOLEAN, m \in BOOLEAN, p \in BOOLEAN}

\* how far the two setItem calls of _setConsent get before one throws
SetItemOutcomes == {"both", "first", "none"}

\* _setConsent(d): the storage afterwards and whether setItem has thrown
setConsent(store, d, how) ==
    IF how = "none" THEN [store |-> store, thrown |-> TRUE]
    ELSE IF how = "first"
    THEN [store |-> [store EXCEPT !.status = StoredFor(d).status], thrown |-> TRUE]
    ELSE [store |-> StoredFor(d), thrown |-> FALSE]

\* _hideBanner: the class goes, the display follows 300 ms later
hideBanner(banner) == [banner EXCEPT !.visible = FALSE, !.timers = @ + 1]

\* a call of acceptAll, rejectNonEssential or savePreferences with
\* consent d: _setConsent, then, unless setItem has thrown, _hideBanner,
\* the panel closed (savePreferences: closePanel) and _loadTrackingScripts
\* (load)
ConsentCall(name, d, how, closePanel, load) ==
    LET r == setConsent(consentStore, d, how)
        done == ~r.thrown
    IN /\ consentEnv.opsLeft > 0
       /\ consentStore' = r.store
       /\ consentBanner' =
            IF done
            THEN [hideBanner(consentBanner) EXCEPT
                      !.panel = IF closePanel THEN FALSE ELSE @]
            ELSE consentBanner
       /\ consentScripts' =
            IF done /\ load THEN loadTrackingScripts(r.store, consentScripts)
            ELSE consentScripts
       /\ consentEnv' = [consentEnv EXCEPT
               !.opsLeft = @ - 1, !.last = name,
               !.loads = IF done /\ load THEN @ + 1 ELSE @]
       /\ UNCHANGED <<cartVars, formVars, envVars, bootVars, wishVars>>
       /\ UNCHANGED <<recentVars, searchVars>>
       /\ UNCHANGED <<ajaxCart, drawerPresent, navigated, historyLength>>

acceptAll(how) ==
    ConsentCall("accept", Details(TRUE, TRUE, TRUE), how, FALSE, TRUE)

rejectNonEssential(how) ==
    ConsentCall("reject", Details(FALSE, FALSE, FALSE), how, FALSE, FALSE)

\* savePreferences with the three checkboxes at a, m and p
savePreferences(a, m, p, how) ==
    ConsentCall("save", Details(a, m, p), how, TRUE, a \/ m)

showPreferences ==
    /\ ~consentBanner.panel
    /\ consentBanner' = [consentBanner EXCEPT !.panel = TRUE]
    /\ consentEnv' = [consentEnv EXCEPT !.last = "manage"]
    /\ UNCHANGED <<consentStore, consentScripts>>
    /\ UNCHANGED <<cartVars, formVars, envVars, bootVars, wishVars>>
    /\ UNCHANGED <<recentVars, searchVars>>
    /\ UNCHANGED <<ajaxCart, drawerPresent, navigated, historyLength>>

\* a timer of _hideBanner runs
BannerTimer ==
    /\ consentBanner.timers > 0
    /\ consentBanner' = [consentBanner EXCEPT !.display = FALSE, !.timers = @ - 1]
    /\ consentEnv' = [consentEnv EXCEPT !.last = "timer"]
    /\ UNCHANGED <<consentStore, consentScripts>>
    /\ UNCHANGED <<cartVars, formVars, envVars, bootVars, wishVars>>
    /\ UNCHANGED <<recentVars, searchVars>>
    /\ UNCHANGED <<ajaxCart, drawerPresent, navigated, historyLength>>

\* CookieConsent.init() is called again on the page; tracked is what
\* userCanBeTracked() answers
ConsentReinit(tracked) ==
    LET r == consentSetup(consentStore, consentEnv.api, tracked,
                          consentBanner, consentScripts)
    IN /\ consentEnv.opsLeft > 0
       /\ consentBanner' = r.banner
       /\ consentScripts' = r.scripts
       /\ consentEnv' = [consentEnv EXCEPT
               !.opsLeft = @ - 1, !.last = "reinit",
               !.loads = IF r.load THEN @ + 1 ELSE @]
       /\ UNCHANGED consentStore
       /\ UNCHANGED <<cartVars, formVars, envVars, bootVars, wishVars>>
       /\ UNCHANGED <<recentVars, searchVars>>
       /\ UNCHANGED <<ajaxCart, drawerPresent, navigated, historyLength>>

\* ---------------------------------------------------- specifications
InitialCarts == [Keys -> 0..1]

EmptyCart == [k \in Keys |-> 0]

\* the template of the default product checks the first variant's options
DefaultSelection == [i \in OptionIdx |-> DefaultProduct[1].options[i]]

\* The cart drawer on a page whose product form is not AJAX-enabled.
InitCart ==
    \E c0 \in InitialCarts :
        InitWith(DefaultProduct, <<>>, DefaultSelection, c0, FALSE, TRUE)

NextCart ==
    \/ ToggleClick
    \/ CloseClick
    \/ EscapeKey
    \/ \E k \in Keys : ClickPlus(k)
    \/ \E k \in Keys : ClickMinus(k)
    \/ \E k \in Keys : ClickRemove(k)
    \/ Submit
    \/ \E t \in InFlight : ServeMutation(t)
    \/ \E t \in InFlight : ServeRead(t)
    \/ \E t \in InFlight : \E how \in Failures(t) : ServeFail(t, how)
    \/ \E t \in InFlight : DeliverUpdate(t)
    \/ \E t \in InFlight : DeliverOpen(t)
    \/ \E t \in InFlight : DeliverCount(t)
    \/ \E t \in InFlight : DeliverAdd(t)

Spec == InitCart /\ [][NextCart]_vars

\* The drawer alone: every way it is opened and closed (toggle, close
\* button, overlay, Escape, a successful add), without the row buttons.
NextDrawer ==
    \/ ToggleClick
    \/ CloseClick
    \/ EscapeKey
    \/ Submit
    \/ \E t \in InFlight : ServeMutation(t)
    \/ \E t \in InFlight : ServeRead(t)
    \/ \E t \in InFlight : \E how \in Failures(t) : ServeFail(t, how)
    \/ \E t \in InFlight : DeliverOpen(t)
    \/ \E t \in InFlight : DeliverCount(t)
    \/ \E t \in InFlight : DeliverAdd(t)

SpecDrawer == InitCart /\ [][NextDrawer]_vars

\* The rows of the drawer: it is opened by the toggle and the quantity and
\* remove buttons of the displayed lines are clicked.  The remote cart has
\* one line.
InitRows ==
    \E c0 \in {c \in InitialCarts : ItemCount(c) = 1} :
        InitWith(DefaultProduct, <<>>, DefaultSelection, c0, FALSE, TRUE)

NextRows ==
    \/ ToggleClick
    \/ \E k \in Keys : ClickPlus(k)
    \/ \E k \in Keys : ClickMinus(k)
    \/ \E k \in Keys : ClickRemove(k)
    \/ \E t \in InFlight : ServeMutation(t)
    \/ \E t \in InFlight : ServeRead(t)
    \/ \E t \in InFlight : \E how \in Failures(t) : ServeFail(t, how)
    \/ \E t \in InFlight : DeliverUpdate(t)
    \/ \E t \in InFlight : DeliverOpen(t)
    \/ \E t \in InFlight : DeliverCount(t)

SpecRows == InitRows /\ [][NextRows]_vars

\* The product form alone: every product of the family, every URL
\* parameter and every template selection.
InitForm ==
    \E vs \in Products, url \in UrlParams, chk0 \in TemplateSelections :
        InitWith(vs, url, chk0, EmptyCart, FALSE, FALSE)

NextForm ==
    \/ \E i \in OptionIdx, val \in OptionValues[1] \cup OptionValues[2] :
            OptionChange(i, val)
    \/ \E change \in {-1, 1} : UpdateQuantity(change)

SpecForm == InitForm /\ [][NextForm]_vars

\* the largest inventory quantity of the stock family
MaxStock == 6

\* variant i with every availability, tracking flag and inventory quantity
\* (negative for an oversold variant)
StockVariants(i, opts) ==
    {[MakeVariant(i, opts, a) EXCEPT !.inventory_management = m,
                                     !.inventory_quantity = q] :
        a \in BOOLEAN, m \in BOOLEAN, q \in -1..MaxStock}

\* The product form of a two-variant product (S, R) and (M, R) with every
\* stock situation of each variant.
InitStock ==
    \E v1 \in StockVariants(1, <<"S", "R">>), v2 \in StockVariants(2, <<"M", "R">>) :
        InitWith(<<v1, v2>>, <<>>, DefaultSelection, EmptyCart, FALSE, FALSE)

SpecStock == InitStock /\ [][NextForm]_vars

\* The page before DOMContentLoaded, with every list of product form
\* containers, and the product form of the first container afterwards.
InitBoot ==
    \E cs \in ContainerLists :
        /\ InitSite(DefaultProduct, <<>>, EmptyCart, FALSE, FALSE)
        /\ checked = DefaultSelection
        /\ form = TemplateForm
        /\ formEvent = "template"
        /\ containers = cs
        /\ booted = FALSE
        /\ productForms = {}
        /\ uncaught = FALSE
        /\ WishInit(<<>>)
        /\ WidgetsInit

NextBoot ==
    \/ DOMContentLoaded
    \/ \E i \in OptionIdx, val \in OptionValues[1] \cup OptionValues[2] :
            OptionChange(i, val)
    \/ \E change \in {-1, 1} : UpdateQuantity(change)

SpecBoot == InitBoot /\ [][NextBoot]_vars

\* The wishlist, from every stored list of the family, under every call.
InitWish ==
    \E items \in StoredLists :
        /\ InitProductPage(DefaultProduct, <<>>, DefaultSelection, EmptyCart, FALSE, FALSE)
        /\ WishInit(items)
        /\ WidgetsInit

NextWish ==
    \/ \E h \in TestHandles, stored \in BOOLEAN : WishAdd(h, stored)
    \/ \E h \in TestHandles, stored \in BOOLEAN : WishRemove(h, stored)
    \/ \E h \in TestHandles, stored \in BOOLEAN : WishToggle(h, stored)
    \/ \E stored \in BOOLEAN : WishClear(stored)

SpecWish == InitWish /\ [][NextWish]_vars

\* The recently viewed list, after every number of viewed products of
\* the family, under every call.
InitRecent ==
    \E n \in RecentSizes :
        /\ InitProductPage(DefaultProduct, <<>>, DefaultSelection, EmptyCart, FALSE, FALSE)
        /\ WishInit(<<>>)
        /\ RecentInit(RecentList(n), FullList(n))
        /\ SearchInit(FALSE)
        /\ ConsentInit([status |-> "none", details |-> NoConsent], FALSE, FALSE)

NextRecent ==
    \/ \E h \in RecentHandles, stored \in BOOLEAN : RecentlyViewedAdd(h, stored)
    \/ \E stored \in BOOLEAN : RecentlyViewedClear(stored)

SpecRecent == InitRecent /\ [][NextRecent]_vars

\* The predictive search: typing, time passing, focus, dismissal and the
\* responses in every order.
InitSearch ==
    \E shown0 \in BOOLEAN :
        /\ InitProductPage(DefaultProduct, <<>>, DefaultSelection, EmptyCart, FALSE, FALSE)
        /\ WishInit(<<>>)
        /\ RecentInit(<<>>, <<>>)
        /\ SearchInit(shown0)
        /\ ConsentInit([status |-> "none", details |-> NoConsent], FALSE, FALSE)

NextSearch ==
    \/ \E v \in SearchValues : InputEvent(v)
    \/ \E d \in Elapsed : Advance(d)
    \/ \E t \in searchTimers : TimerFire(t)
    \/ SearchFocus
    \/ \E kind \in {"click", "escape"} : SearchDismiss(kind)
    \/ \E r \in searchReqs, how \in {"ok", "notok", "rejected"} : SearchResponse(r, how)
    \/ \E r \in searchReqs, how \in {"ok", "rejected"} : SearchBody(r, how)

SpecSearch == InitSearch /\ [][NextSearch]_vars

\* The cookie consent: every stored consent at page load, with and
\* without the privacy API, under every call.
InitConsent ==
    \E store \in ConsentStores, api \in BOOLEAN, tracked \in BOOLEAN :
        /\ InitProductPage(DefaultProduct, <<>>, DefaultSelection, EmptyCart, FALSE, FALSE)
        /\ WishInit(<<>>)
        /\ RecentInit(<<>>, <<>>)
        /\ SearchInit(FALSE)
        /\ ConsentInit(store, api, tracked)

NextConsent ==
    \/ \E how \in SetItemOutcomes : acceptAll(how)
    \/ \E how \in SetItemOutcomes : rejectNonEssential(how)
    \/ \E a \in BOOLEAN, m \in BOOLEAN, p \in BOOLEAN, how \in SetItemOutcomes :
            savePreferences(a, m, p, how)
    \/ showPreferences
    \/ BannerTimer
    \/ \E tracked \in BOOLEAN : ConsentReinit(tracked)

SpecConsent == InitConsent /\ [][NextConsent]_vars

\* The add-to-cart submit on every page configuration: AJAX cart on or
\* off, cart drawer present or not.
InitSubmit ==
    \E ajax \in BOOLEAN, drawer \in BOOLEAN :
        InitWith(DefaultProduct, <<>>, DefaultSelection, EmptyCart, ajax, drawer)

NextSubmit ==
    \/ Submit
    \/ \E t \in InFlight : ServeMutation(t)
    \/ \E t \in InFlight : ServeRead(t)
    \/ \E t \in InFlight : \E how \in Failures(t) : ServeFail(t, how)
    \/ \E t \in InFlight : DeliverAdd(t)
    \/ \E t \in InFlight : DeliverPfAdd(t)
    \/ \E t \in InFlight : DeliverOpen(t)
    \/ \E t \in InFlight : DeliverCount(t)
    \/ TimerReset
    \/ TimerAvail

SpecSubmit == InitSubmit /\ [][NextSubmit]_vars

\* The add-to-cart submit with the option inputs in use while the request
\* and the delayed resets are pending.
NextSubmitChange ==
    \/ NextSubmit
    \/ \E i \in OptionIdx, val \in OptionValues[1] \cup OptionValues[2] :
            OptionChange(i, val)

SpecSubmitChange == InitSubmit /\ [][NextSubmitChange]_vars

\* The steps the page takes by itself: a response arrives, a continuation
\* or a timer callback runs.
SystemStep ==
    \/ \E t \in InFlight : ServeMutation(t)
    \/ \E t \in InFlight : ServeRead(t)
    \/ \E t \in InFlight : \E how \in Failures(t) : ServeFail(t, how)
    \/ \E t \in InFlight : DeliverAdd(t)
    \/ \E t \in InFlight : DeliverPfAdd(t)
    \/ \E t \in InFlight : DeliverOpen(t)
    \/ \E t \in InFlight : DeliverCount(t)
    \/ TimerReset
    \/ TimerAvail

\* SpecSubmit where every fetch settles and the event loop runs every
\* continuation and timer that is ready; the user may stop at any time.
SpecSubmitLive == InitSubmit /\ [][NextSubmit]_vars /\ WF_vars(SystemStep)

\* ------------------------------------------------------------ claims
\* the copies in bag b of the tasks that satisfy P
RECURSIVE CopiesOver(_, _)
CopiesOver(b, S) ==
    IF S = {} THEN 0
    ELSE LET t == CHOOSE x \in S : TRUE
         IN CopiesIn(t, b) + CopiesOver(b, S \ {t})

CountWhere(b, P(_)) == CopiesOver(b, {t \in BagToSet(b) : P(t)})

IsFragFetch(t) == t.pc = "frag" /\ t.net = "sent"

\* refresh() calls whose fragment fetch is in flight, not yet served
RefreshesSent(b) == CountWhere(b, IsFragFetch)

\* task t of the bag is consumed by this step (its continuation ran)
Consumed(t) == CopiesIn(t, tasks') < CopiesIn(t, tasks)

\* C1: when changeQuantity(key, +1) is invoked twice for one line key, the
\* second time before the first call's update request has settled, the
\* remote cart's final quantity for the line is initial + 2.  The observer
\* dbl is armed by exactly such a pair (with the row displayed in sync with
\* the remote cart at the first click), records initial + 2, and stays live
\* while no other event touches the line and no request for it fails.
C1_BothIncrementsApplied ==
    (dbl.armed /\ dbl.live /\ UpdatesInFlight(dbl.key) = {})
        => cart[dbl.key] = dbl.final

\* C2: at no time are two update requests for the same line key in flight
\* (sent and not yet settled).
C2_OneUpdatePerKey ==
    \A k \in Keys : CopiesOver(tasks, UpdatesInFlight(k)) <= 1

\* C6: removeItem(key) performs a cart refresh after its update request
\* settles, when the request succeeded and when it failed: the step in
\* which the settled request of an updateItem(key, 0) is consumed sends the
\* fragment fetch of refresh().
C6_RemoveAlwaysRefreshes ==
    [][\A t \in InFlight :
          (t.kind = "update" /\ t.qty = 0 /\ t.pc = "req" /\ t.net # "sent"
             /\ Consumed(t))
          => RefreshesSent(tasks') = RefreshesSent(tasks) + 1]_vars

\* C7: each submission of an add-to-cart form causes exactly one add-line
\* request to the remote cart, on every page configuration.
C7_OneAddRequestPerSubmission == addReqs = submits

\* C8: once every in-flight cart request has settled successfully, the
\* displayed cart fragment and the count indicators equal the remote
\* cart's contents and item count.
C8_ViewMatchesRemote ==
    (tasks = EmptyBag /\ failures = 0 /\ ~navigated)
        => (shown = cart /\ shownCount = ItemCount(cart))

\* C9: in every reachable state in which the drawer is visibly open, a
\* close request (close button, overlay click, Escape: all are close())
\* hides the drawer and leaves it Closed.
C9_CloseRequestCloses ==
    drawerVisible => (closeVisible = FALSE /\ closeIsOpen = FALSE)

\* the variants whose option tuple equals the selection, position by position
TupleMatches == {n \in 1..Len(variants) : \A i \in OptionIdx : variants[n].options[i] = checked[i]}

\* the variants that agree with the selection at every option index that
\* has a chosen value
WildcardMatches ==
    {n \in 1..Len(variants) :
        \A i \in OptionIdx : checked[i] # NoValue => variants[n].options[i] = checked[i]}

FullSelection == \A i \in OptionIdx : checked[i] # NoValue

Least(S) == CHOOSE n \in S : \A m \in S : n <= m

\* C3: after an option change with a value chosen for every option index,
\* the current variant is the first variant in list order whose option
\* tuple equals the selection, and the no-match value when there is none.
C3_FullSelectionResolves ==
    (formEvent = "change" /\ FullSelection)
        => form.currentVariant = (IF TupleMatches = {} THEN 0 ELSE Least(TupleMatches))

\* two variants carry the selected tuple and the first of them is current
C3_Witness ==
    /\ formEvent = "change" /\ FullSelection
    /\ Cardinality(TupleMatches) = 2
    /\ form.currentVariant = 1

\* C4: after an option change with some option indices left without a
\* value, the resolved variant is one that agrees with the chosen value at
\* every option index that has one (the first such variant), the indices
\* without a value being wildcards; no variant is resolved only when none
\* agrees.
C4_PartialSelectionWildcard ==
    (formEvent = "change" /\ ~FullSelection)
        => form.currentVariant =
              (IF WildcardMatches = {} THEN 0 ELSE Least(WildcardMatches))

\* the variants whose id is the number the URL's variant parameter reads as
UrlNamed ==
    {n \in 1..Len(variants) :
        urlParam # <<>> /\ ~ParseInt(urlParam).nan
            /\ variants[n].id = ParseInt(urlParam).val}

Available == {n \in 1..Len(variants) : variants[n].available}

\* C5: at construction the current variant is the variant whose id equals
\* the URL's variant parameter (read as a number, as parseInt reads it) when
\* there is one, available or not; otherwise the first available variant;
\* otherwise the first variant.
C5_InitialVariantPrecedence ==
    formEvent = "load"
        => form.currentVariant =
              (IF UrlNamed # {} THEN Least(UrlNamed)
               ELSE IF Available # {} THEN Least(Available)
               ELSE 1)

\* the URL names the second variant, which is sold out, the first one is
\* available, and the second is current
C5_Witness ==
    /\ formEvent = "load"
    /\ Len(variants) = 2 /\ variants[1].available /\ ~variants[2].available
    /\ urlParam = NumToString(variants[2].id)
    /\ form.currentVariant = 2

\* C10: every open request on a Closed drawer issues a refresh; the drawer
\* becomes visible only after that refresh has settled; and when the
\* refresh fails the drawer still ends Open.  As steps: (1) a step that
\* sets isOpen sends the fragment fetch of one refresh() and does not yet
\* show the drawer; (2) a step that shows the drawer is the continuation
\* of an open() whose refresh has settled; (3) the continuation of an
\* open() whose refresh failed shows the drawer and leaves isOpen and the
\* displayed fragment as they were.
C10_OpenRefreshesThenShows ==
    [][/\ (~isOpen /\ isOpen')
            => /\ RefreshesSent(tasks') = RefreshesSent(tasks) + 1
               /\ CopiesIn(OpenTask, tasks') = CopiesIn(OpenTask, tasks) + 1
               /\ drawerVisible' = drawerVisible
       /\ (~drawerVisible /\ drawerVisible')
            => \E t \in InFlight : t.kind = "open" /\ t.net # "sent" /\ Consumed(t)
       /\ \A t \in InFlight :
            (t.kind = "open" /\ t.net = "fail" /\ Consumed(t))
                => (drawerVisible' /\ isOpen' = isOpen /\ shown' = shown)]_vars

\* the drawer is open and on screen after the refresh of its open() failed
C10_Witness ==
    /\ isOpen /\ drawerVisible
    /\ lastLog = "CartDrawer: Refresh failed"
    /\ submits = 0
    /\ opsLeft = MaxOps - 1

\* C11: every add-to-cart submission that disabled the submit control
\* eventually re-enables it, whichever way the request settles: a state in
\* which the control is disabled is always followed by one in which it is
\* enabled.
C11_ControlReenabled == form.btnDisabled ~> ~form.btnDisabled

\* a submission handled by the drawer alone failed and the control is
\* enabled again
C11_Witness ==
    /\ submits = 1 /\ ~ajaxCart /\ drawerPresent
    /\ lastLog = "CartDrawer: Add failed"
    /\ ~form.btnDisabled

\* the texts addItem shows that are not taken from a response's description
GenericMessages ==
    {"Failed to add item", "Failed to add item to cart", "Failed to fetch", "Unexpected token"}

CountsInFlight(b) == CopiesOver(b, {t \in BagToSet(b) : t.kind = "count"})

\* C12: when addItem's add request fails (rejected fetch or non-success
\* response), the step that handles the failure alerts the response's
\* description when it has one and a generic text otherwise, starts no
\* refresh (no fragment or count fetch), and leaves the drawer's open flag,
\* its visibility and the displayed fragment as they were.
C12_AddFailureSurfaced ==
    [][\A t \in InFlight :
          (t.kind = "add" /\ t.pc = "req" /\ t.net \notin {"sent", "ok"} /\ Consumed(t))
          => /\ t.net = "errdesc" => alertMsg' = "<description>"
             /\ t.net # "errdesc" => alertMsg' \in GenericMessages
             /\ RefreshesSent(tasks') = RefreshesSent(tasks)
             /\ CountsInFlight(tasks') = CountsInFlight(tasks)
             /\ isOpen' = isOpen /\ drawerVisible' = drawerVisible
             /\ shown' = shown /\ cart' = cart]_vars

\* an add failed with a description while the drawer was open: the
\* description is shown and the drawer is still open
C12_Witness ==
    /\ alertMsg = "<description>"
    /\ lastLog = "CartDrawer: Add failed"
    /\ isOpen /\ drawerVisible

OpensInFlight(b) == CopiesOver(b, {t \in BagToSet(b) : t.kind = "open"})

\* C13: after a successful add request the rendered cart is refreshed, the
\* drawer ends Open and no error message is shown.  As steps of addItem:
\* the continuation of a successful add request sends the fragment fetch of
\* one refresh(); the continuation after that refresh leaves isOpen set,
\* with the drawer on screen or an open() on its way to show it; neither
\* step alerts.
C13_AddSuccessRefreshesAndOpens ==
    [][\A t \in InFlight :
          /\ (t.kind = "add" /\ t.pc = "req" /\ t.net = "ok" /\ Consumed(t))
                => /\ RefreshesSent(tasks') = RefreshesSent(tasks) + 1
                   /\ alertMsg' = alertMsg
          /\ (t.kind = "add" /\ t.pc = "frag" /\ t.net # "sent" /\ Consumed(t))
                => /\ isOpen'
                   /\ drawerVisible' \/ OpensInFlight(tasks') > 0
                   /\ alertMsg' = alertMsg]_vars

\* one submission on a closed drawer succeeded: the drawer is open and on
\* screen, it shows the added line, and nothing was alerted
C13_Witness ==
    /\ submits = 1 /\ opsLeft = MaxOps - 1
    /\ tasks = EmptyBag /\ failures = 0
    /\ isOpen /\ drawerVisible
    /\ cart[KeyOfId(form.variantIdInput)] >= 1 /\ shown = cart
    /\ alertMsg = ""

\* the step sends exactly one request, an update of line k to quantity n,
\* and changes nothing at the remote cart
SendsOneUpdate(k, n) ==
    /\ BagCardinality(tasks') = BagCardinality(tasks) + 1
    /\ \E t \in BagToSet(tasks') :
          /\ CopiesIn(t, tasks') = CopiesIn(t, tasks) + 1
          /\ t.kind = "update" /\ t.pc = "req" /\ t.net = "sent"
          /\ t.key = k /\ t.qty = n
    /\ cart' = cart

\* C14: changeQuantity(key, delta) computes max(0, displayed + delta) from
\* the quantity displayed for the line; when that is zero the step is the
\* one removeItem(key) takes (one update request for quantity 0), and
\* otherwise it sends exactly one update request carrying the new absolute
\* quantity.
C14_ChangeQuantitySendsAbsolute ==
    [][\A k \in Keys :
          /\ ClickPlus(k) => SendsOneUpdate(k, shown[k] + 1)
          /\ ClickMinus(k) =>
                IF shown[k] - 1 <= 0
                THEN tasks' = tasks (+) One(updateItemTask(k, 0)) /\ cart' = cart
                ELSE SendsOneUpdate(k, shown[k] - 1)]_vars

\* a plus click on a line displayed with quantity 2 has sent quantity 3
C14_Witness ==
    \E t \in InFlight :
        /\ t.kind = "update" /\ t.pc = "req" /\ t.net = "sent"
        /\ t.plus /\ shown[t.key] = 2 /\ t.qty = 3

\* C15: refresh() never rejects.  The continuation that receives a failed
\* fragment fetch (rejected, or a non-success status) leaves the displayed
\* fragment and the count indicators as they were, starts no count fetch,
\* and only logs: the caller goes on after its `await this.refresh()`
\* (its own catch, which would log or alert, does not run).
C15_RefreshFailureOnlyLogged ==
    [][\A t \in InFlight :
          (t.pc = "frag" /\ t.net = "fail" /\ Consumed(t))
          => /\ shown' = shown /\ shownCount' = shownCount
             /\ CountsInFlight(tasks') = CountsInFlight(tasks)
             /\ lastLog' = "CartDrawer: Refresh failed"
             /\ alertMsg' = alertMsg
             /\ t.kind = "update" => ~isLoading'
             /\ t.kind = "open" => drawerVisible']_vars

\* a quantity change reached the remote cart and the refresh after it
\* failed: the drawer still shows the old fragment and is not loading
C15_Witness ==
    /\ tasks = EmptyBag /\ drawerVisible /\ ~isLoading
    /\ lastLog = "CartDrawer: Refresh failed"
    /\ shown # cart

\* the control as the claim has it for the variants M that match the
\* selection (the first of them being the matched variant)
ControlFor(M) ==
    IF M = {}
    THEN form.btnDisabled /\ form.btnText = "Unavailable"
    ELSE IF variants[Least(M)].available
    THEN ~form.btnDisabled /\ form.btnText = "Add to Cart"
    ELSE form.btnDisabled /\ form.btnText = "Sold Out"

\* C16: after every option change the add-to-cart control is disabled with
\* label 'Unavailable' when no variant matches the selection, disabled
\* with label 'Sold Out' when the matched variant is not available, and
\* enabled with label 'Add to Cart' when it is; a variant matches when it
\* agrees with the selection at every option index that has a value.
C16_ControlFollowsSelection == formEvent = "change" => ControlFor(WildcardMatches)

\* the same for selections with a value at every option index
C16_FullSelectionOnly ==
    (formEvent = "change" /\ FullSelection) => ControlFor(TupleMatches)

\* C17: for every matched variant the stock label is exactly one of three:
\* 'Out of Stock' iff available is false; 'Only N left', N the inventory
\* quantity, iff the variant is available, inventory-tracked and
\* 0 < quantity <= 5; 'In Stock' in every other available case.
C17_StockLabelTiers ==
    form.currentVariant # 0 =>
        LET v == variants[form.currentVariant]
            label == form.stockStatus
            low == /\ v.available /\ v.inventory_management
                   /\ 0 < v.inventory_quantity /\ v.inventory_quantity <= 5
        IN /\ label.tier \in {"Out of Stock", "Only N left", "In Stock"}
           /\ label.tier = "Out of Stock" <=> ~v.available
           /\ label.tier = "Only N left" <=> low
           /\ label.tier = "Only N left" => label.n = v.inventory_quantity
           /\ label.tier = "In Stock" <=> (v.available /\ ~low)

\* an option change resolved a tracked variant with 5 in stock, labelled
\* 'Only 5 left', in a product whose other variant, tracked with 6 in
\* stock, is labelled 'In Stock' when it is the current one
C17_Witness ==
    /\ formEvent = "change" /\ form.currentVariant = 2
    /\ variants[2].available /\ variants[2].inventory_management
    /\ variants[2].inventory_quantity = 5
    /\ form.stockStatus = [tier |-> "Only N left", n |-> 5]
    /\ variants[1].available /\ variants[1].inventory_management
    /\ variants[1].inventory_quantity = 6

\* C18: after every option change that resolves to a variant, the URL's
\* variant parameter equals that variant's id (as text, and read back as a
\* number), written by replacing the current history entry: the history
\* has no new entry and the page has not navigated; and applying the
\* update again with the same variant leaves the URL and the history as
\* they are.
C18_UrlReflectsVariant ==
    [][(checked' # checked /\ form'.currentVariant # 0)
          => LET id == variants[form'.currentVariant].id
             IN /\ urlParam' = NumToString(id)
                /\ ~ParseInt(urlParam').nan /\ ParseInt(urlParam').val = id
                /\ historyLength' = historyLength
                /\ navigated' = navigated
                /\ updateUrl(urlParam', form', variants) = urlParam'
                /\ updateUrlHistory(historyLength', form') = historyLength']_vars

\* an option change resolved the first variant of a product with two
\* different variants: the URL names it and the history has its one entry
C18_Witness ==
    /\ formEvent = "change" /\ form.currentVariant = 1
    /\ Len(variants) = 2 /\ variants[1].options # variants[2].options
    /\ urlParam = NumToString(variants[1].id)
    /\ historyLength = 1

\* C19: when a product form container's ProductJson element is absent or
\* its content is not valid product JSON, initialization of that container
\* is a complete no-op: once the DOMContentLoaded listener has run, no
\* exception has left it, the containers with a ProductForm (and so with
\* listeners) are exactly those with valid product data, and every one of
\* those has been initialized.
C19_BadProductDataIsNoOp ==
    booted => /\ ~uncaught
              /\ productForms = {i \in 1..Len(containers) : containers[i] = "ok"}

\* C20: Wishlist.add(h) for a handle h already in the wishlist returns
\* false and leaves the stored list (contents, order and count) unchanged.
C20_AddExistingIsNoOp ==
    [][(wishOpsLeft' < wishOpsLeft /\ wishOp'.op = "add"
            /\ \E i \in 1..Len(wishlist) : wishlist[i] = wishOp'.handle)
          => /\ wishResult' = "false"
             /\ wishlist' = wishlist
             /\ wishCount' = wishCount]_vars

\* add was called with the newest handle of a full list and returned false
C20_Witness ==
    /\ wishOp = [op |-> "add", handle |-> Handle(MAX_ITEMS)]
    /\ wishResult = "false"
    /\ wishlist = FullList(MAX_ITEMS)

\* the handles of a list
HandlesOf(items) == {items[i] : i \in 1..Len(items)}

NoDuplicates(items) == Cardinality(HandlesOf(items)) = Len(items)

\* going from list old to list new, the entries that stay keep their
\* order and an entry that is new comes last: the list is in the order
\* the handles were added, oldest first
AddedOrderKept(old, new) ==
    LET inOld == HandlesOf(old)
        inNew == HandlesOf(new)
    IN /\ SelectSeq(old, LAMBDA h : h \in inNew)
            = SelectSeq(new, LAMBDA h : h \in inOld)
       /\ \A i \in 1..Len(new) : new[i] \notin inOld => i = Len(new)

\* C21: from an empty wishlist (and from the lists built by adding
\* products one after the other), after any sequence of add, remove,
\* toggle and clear the stored list has no duplicates and at most 50
\* entries; every call keeps the list in the order the handles were added;
\* and an add of a new handle that changes a full stored list drops
\* exactly its first, oldest-added entry and appends the handle.
C21_WishlistCapAndEviction ==
    /\ [](NoDuplicates(wishlist) /\ Len(wishlist) <= MAX_ITEMS)
    /\ [][/\ AddedOrderKept(wishlist, wishlist')
          /\ (wishOpsLeft' < wishOpsLeft /\ wishOp'.op = "add"
                /\ wishOp'.handle # "" /\ wishOp'.handle \notin HandlesOf(wishlist)
                /\ Len(wishlist) = MAX_ITEMS /\ wishlist' # wishlist)
              => wishlist' = Append(Tail(wishlist), wishOp'.handle)]_vars

\* a 51st handle was added to the full list of products 1..50: product 1
\* is gone, products 2..50 and the new handle are stored
C21_Witness ==
    /\ wishOp = [op |-> "add", handle |-> Handle(MAX_ITEMS + 1)]
    /\ wishResult = "true"
    /\ Len(wishlist) = MAX_ITEMS
    /\ wishlist[1] = Handle(2)
    /\ wishlist[MAX_ITEMS] = Handle(MAX_ITEMS + 1)

\* how often handle h occurs in items
Occurrences(items, h) == Len(SelectSeq(items, LAMBDA x : x = h))

\* C22: RecentlyViewed.add(h) for a handle already in the stored list,
\* when its save takes effect, leaves h at the front, exactly once, the
\* other entries in their relative order and the count unchanged.
C22_AddExistingMovesToFront ==
    [][(recentOpsLeft' < recentOpsLeft /\ recentOp'.op = "add"
          /\ recentOp'.stored /\ Occurrences(recent, recentOp'.handle) > 0)
       => /\ recent'[1] = recentOp'.handle
          /\ Occurrences(recent', recentOp'.handle) = 1
          /\ SelectSeq(recent', LAMBDA x : x # recentOp'.handle)
                = SelectSeq(recent, LAMBDA x : x # recentOp'.handle)
          /\ Len(recent') = Len(recent)]_vars

\* the least recently viewed product of a full list was viewed again: it
\* is in front, followed by the others as they were
C22_Witness ==
    /\ recentOp = [op |-> "add", handle |-> Handle(1), stored |-> TRUE]
    /\ Len(recent) = RECENT_MAX_ITEMS
    /\ recent[1] = Handle(1)
    /\ recent[2] = Handle(RECENT_MAX_ITEMS)
    /\ recent[RECENT_MAX_ITEMS] = Handle(2)

\* the distinct handles of a sequence of adds, the most recently added
\* first
RECURSIVE LatestFirst(_)
LatestFirst(adds) ==
    IF adds = <<>> THEN <<>>
    ELSE LET last == adds[Len(adds)]
         IN <<last>> \o LatestFirst(SelectSeq(SubSeq(adds, 1, Len(adds) - 1),
                                              LAMBDA x : x # last))

\* the first n entries of a list
FirstN(items, n) == SubSeq(items, 1, IF Len(items) < n THEN Len(items) ELSE n)

\* C23: from an empty list (and from the lists left by viewing products
\* one after the other), after any sequence of RecentlyViewed.add and
\* clear the stored list has no duplicates and at most 12 entries, and it
\* is the 12 most recently added distinct handles, the latest first: on
\* overflow exactly the least recently added handle is gone.
C23_RecentListBoundedAndOrdered ==
    /\ NoDuplicates(recent)
    /\ Len(recent) <= RECENT_MAX_ITEMS
    /\ recent = FirstN(LatestFirst(recentAdds), RECENT_MAX_ITEMS)

\* a 13th product was viewed on a full list of products 1..12: it is in
\* front and product 1, the least recently viewed, is gone
C23_Witness ==
    /\ recentOp = [op |-> "add", handle |-> Handle(RECENT_MAX_ITEMS + 1),
                   stored |-> TRUE]
    /\ Len(recent) = RECENT_MAX_ITEMS
    /\ recent[1] = Handle(RECENT_MAX_ITEMS + 1)
    /\ recent[RECENT_MAX_ITEMS] = Handle(2)
    /\ Len(recentAdds) = RECENT_MAX_ITEMS + 1

\* C24: a predictive-search request, once issued, is never cancelled (it
\* stays in flight until its own response is handled), and the body of
\* every response is written into the results container and shown, also
\* when a newer query's request was issued, and answered, meanwhile.
C24_StaleResponseOverwrites ==
    [][/\ \A r \in searchReqs :
            (\E q \in searchReqs' : q.seq = r.seq)
            \/ searchObs'.last = [kind |-> "response", id |-> r.seq]
       /\ \A r \in searchReqs :
            (r.pc = "text" /\ searchObs'.last = [kind |-> "response", id |-> r.seq]
                /\ searchResults'.kind # "error")
            => (searchResults' = [kind |-> "results", query |-> r.query]
                /\ searchShown')]_vars

\* two requests were issued, the newer one was answered first, and the
\* container holds the results of the older query
C24_Witness ==
    /\ Len(searchObs.issued) = 2
    /\ searchObs.issued[1] # searchObs.issued[2]
    /\ searchObs.delivered = <<2, 1>>
    /\ searchResults = [kind |-> "results", query |-> searchObs.issued[1]]
    /\ searchShown

\* C25: at most one debounce timer is pending at any time, and search()
\* is called only by the timer of the last input event, after the
\* debounce delay has passed with no further input: of input events
\* closer together than the delay only the last one triggers it.
C25_DebounceLastInputOnly ==
    /\ [](Cardinality(searchTimers) <= 1)
    /\ [][searchObs'.calls > searchObs.calls
            => /\ searchObs'.calls = searchObs.calls + 1
               /\ searchObs'.last = [kind |-> "timer", id |-> searchObs.events]
               /\ searchObs.since >= DEBOUNCE_MS]_vars

\* three input events, the later ones each within the delay of the one
\* before, and a single search() call, made by the timer of the third
C25_Witness ==
    /\ searchObs.events = 3
    /\ searchObs.rapid
    /\ searchObs.calls = 1
    /\ searchObs.last = [kind |-> "timer", id |-> 3]
    /\ searchTimers = {}

\* C30: after search() was called with a query shorter than 2 characters,
\* or the results were dismissed by Escape or an outside click, the
\* results container is hidden as long as no search with a query of at
\* least 2 characters was started and the input was not focused since.
C30_DismissedStaysHidden == searchObs.dismissed => ~searchShown

\* the stored consent for the category of deferred script i
StoredConsentFor(store, i) ==
    /\ ScriptCategories[i] \in {"analytics", "marketing"}
    /\ getConsent(store)[ScriptCategories[i]]

\* C26: a deferred script is activated only when the stored consent for
\* its category (analytics or marketing) is true at that moment, at page
\* load and in every later call, and no script is activated more than
\* once over any sequence of accept-all, reject, save-preferences and
\* re-initialization.
C26_ActivationNeedsConsentOnce ==
    /\ \A i \in DOMAIN consentScripts :
            consentScripts[i].runs > 0 => StoredConsentFor(consentStore, i)
    /\ [](\A i \in DOMAIN consentScripts : consentScripts[i].runs <= 1)
    /\ [][\A i \in DOMAIN consentScripts :
            consentScripts'[i].runs > consentScripts[i].runs
                => StoredConsentFor(consentStore', i)]_vars

\* _loadTrackingScripts has run three times, the analytics script was
\* activated once and the marketing script never
C26_Witness ==
    /\ consentEnv.loads = 3
    /\ consentScripts[1].runs = 1
    /\ consentScripts[2].runs = 0
    /\ consentStore.details.analytics

\* C27: whenever no add request is in flight, the add-to-cart control is
\* enabled only if the current variant exists and is available, also
\* after the delayed resets of a ProductForm submission and after
\* CartDrawer.addItem has released the control.
C27_EnabledOnlyIfAvailable ==
    (~navigated /\ ~form.btnDisabled
        /\ \A t \in InFlight : ~(t.kind \in {"add", "pfadd"} /\ t.pc = "req"))
    => (form.currentVariant # 0 /\ variants[form.currentVariant].available)

\* C28: an option change that resolves to no variant changes only the
\* add-to-cart control (disabled, 'Unavailable'): the hidden variant id
\* field, the price, the compare price, the image, the stock label and
\* the URL variant parameter keep the values they had, those of the
\* variant resolved before.
C28_NoVariantOnlyTouchesControl ==
    [][(checked' # checked /\ form'.currentVariant = 0)
       => /\ form' = [form EXCEPT !.currentVariant = 0, !.btnDisabled = TRUE,
                                  !.btnText = "Unavailable"]
          /\ form'.variantIdInput = form.variantIdInput
          /\ form'.priceText = form.priceText
          /\ form'.compareText = form.compareText
          /\ form'.compareHidden = form.compareHidden
          /\ form'.mainImage = form.mainImage
          /\ form'.stockStatus = form.stockStatus
          /\ urlParam' = urlParam
          /\ historyLength' = historyLength]_vars

\* after variant 2 was selected, an option change matched no variant: the
\* control says 'Unavailable', the id field and the URL still name variant 2
C28_Witness ==
    /\ formEvent = "change"
    /\ form.currentVariant = 0
    /\ form.btnDisabled /\ form.btnText = "Unavailable"
    /\ form.variantIdInput = IdOf(2)
    /\ urlParam = NumToString(IdOf(2))
    /\ form.priceText = formatMoney(variants[2].price)

\* C29: the drawer carries the is-loading marker exactly while at least
\* one updateItem call is in flight (its change request or the refresh
\* that follows it), whatever the interleaving of overlapping calls.
C29_LoadingWhileUpdating ==
    isLoading <=> (\E t \in InFlight : t.kind = "update")

\* C31: while storage accepts every save, Wishlist.toggle(h) has returned
\* true exactly when h is in the wishlist after the call, for every
\* handle, the empty handle included.
C31_ToggleReturnsMembership ==
    (wishOp.op = "toggle" /\ ~wishSaveFailed)
        => (wishResult = "true" <=> includes(wishlist, wishOp.handle))

\* C32: while storage accepts every save, a second Wishlist.toggle(h)
\* right after a first one leaves the set of handles of the wishlist as
\* it was before the two calls, also for a wishlist of 50 entries.
C32_ToggleTwiceRestores ==
    [][(wishOpsLeft' < wishOpsLeft /\ wishOp.op = "toggle" /\ wishOp' = wishOp
          /\ ~wishSaveFailed')
       => HandlesOf(wishlist') = HandlesOf(wishBefore)]_vars

====
